---- MODULE Spec2Model ----
(***************************************************************************)
(* A model of the pythonic-template post-generation hook                   *)
(* (hooks/post_gen_project.py): commit resolution for .cruft.json, Python  *)
(* version discovery, placeholder-token substitution and main(); and of    *)
(* the scripts validate_template.py, lib/python_versions.py and            *)
(* bump_python.py.                                                         *)
(*                                                                         *)
(* Text is a sequence of one-character strings, so that str.strip,         *)
(* str.split, str.replace, str.startswith and the regular expressions of   *)
(* the source are computed character by character.  Python and JSON values *)
(* are records tagged by type: null/None, str, num, bool, list, obj.       *)
(***************************************************************************)
EXTENDS Integers, Sequences, FiniteSets, TLC

VARIABLES
    cruft_file,      \* what .cruft.json holds in the project directory
    environ,         \* os.environ: COOKIECUTTER_TEMPLATE_COMMIT, GITHUB_SHA
    git_repos,       \* which directories hold a .git entry
    cruft_result,    \* how the last call of setup_cruft_tracking ended
    dpv,             \* discover_python_versions: loop position, queries, result
    python_version,  \* the cookiecutter.python_version input
    today,           \* date.today() as YYYY-MM-DD
    files,           \* the generated project's files: name -> content or absent
    tokens_result,   \* how the last call of setup_python_versions ended
    placeholders,    \* the __remove__* paths under the project directory
    main_pc,         \* main(): the step about to run, "done" or "raised"
    uv_available,    \* main(): its local variable uv_available
    main_log,        \* main(): what the last step ran and printed
    workflows,       \* validate_template: the template's workflow files
    raw_errors,      \* what check_workflows_raw_wrapping returned
    requires_spec,   \* the requires-python specifier given to the parser
    min_max,         \* what parse_requires_python returned for it
    argv,            \* bump_python: sys.argv
    pyproject,       \* bump_python: what pyproject.toml holds
    bump_result,     \* bump_python: how the run of the script ended
    options,         \* the cookiecutter inputs ai_agents and project_type
    tree,            \* the optional files of the generated project
    versions_given, \* the list given to get_unique_minors
    unique_minors    \* what get_unique_minors returned for it

vars == <<cruft_file, environ, git_repos, cruft_result, dpv, python_version,
          today, files, tokens_result, placeholders, main_pc, uv_available,
          main_log, workflows, raw_errors, requires_spec, min_max, argv,
          pyproject, bump_result, options, tree, versions_given,
          unique_minors>>

cruft_vars == <<cruft_file, environ, git_repos, cruft_result>>
dpv_vars == <<dpv>>
tokens_vars == <<python_version, today, files, tokens_result>>
main_vars == <<placeholders, main_pc, uv_available, main_log>>
validate_vars == <<workflows, raw_errors>>
parse_vars == <<requires_spec, min_max>>
bump_vars == <<argv, pyproject, bump_result>>
gen_vars == <<options, tree>>
minors_vars == <<versions_given, unique_minors>>
tool_vars == <<validate_vars, parse_vars, bump_vars, gen_vars, minors_vars>>

----------------------------------------------------------------------------
(* Python values *)

PyNone == [t |-> "null"]
Str(s) == [t |-> "str", v |-> s]
Num(n) == [t |-> "num", v |-> n]
List(l) == [t |-> "list", v |-> l]
Obj(f) == [t |-> "obj", v |-> f]

\* bool(x) of a Python value
Truthy(x) ==
    CASE x.t = "null" -> FALSE
      [] x.t = "str" -> Len(x.v) > 0
      [] x.t = "num" -> x.v /= 0
      [] x.t = "bool" -> x.v
      [] x.t = "list" -> Len(x.v) > 0
      [] x.t = "obj" -> DOMAIN x.v /= {}

\* dict.get(key, default)
DictGet(d, key, default) == IF key \in DOMAIN d.v THEN d.v[key] ELSE default

\* d[key] = value
DictSet(d, key, value) ==
    Obj([k \in DOMAIN d.v \cup {key} |-> IF k = key THEN value ELSE d.v[k]])

----------------------------------------------------------------------------
(* Text *)

Digits == {"0", "1", "2", "3", "4", "5", "6", "7", "8", "9"}
HexDigits == Digits \cup {"a", "b", "c", "d", "e", "f"}
Whitespace == {" ", "\t", "\n", "\r"}

\* s[i:] with a 0-based i, as a sequence
Drop(s, n) == IF n >= Len(s) THEN <<>> ELSE SubSeq(s, n + 1, Len(s))
Take(s, n) == IF n >= Len(s) THEN s ELSE SubSeq(s, 1, n)

\* str.startswith(prefix)
StartsWith(s, prefix) ==
    /\ Len(prefix) <= Len(s)
    /\ \A i \in 1..Len(prefix) : s[i] = prefix[i]

RECURSIVE LStrip(_)
LStrip(s) == IF s /= <<>> /\ Head(s) \in Whitespace THEN LStrip(Tail(s)) ELSE s

RECURSIVE RStripSet(_, _)
RStripSet(s, chars) ==
    IF s /= <<>> /\ s[Len(s)] \in chars
    THEN RStripSet(SubSeq(s, 1, Len(s) - 1), chars)
    ELSE s

\* str.strip()
Strip(s) == RStripSet(LStrip(s), Whitespace)

\* the index of the first character of s at or after i that is in chars,
\* Len(s) + 1 when there is none
FindChar(s, chars, i) ==
    LET hits == { j \in i..Len(s) : s[j] \in chars }
    IN  IF hits = {} THEN Len(s) + 1
        ELSE CHOOSE j \in hits : \A k \in hits : j <= k

\* str.split(sep) for a one-character sep: empty pieces are kept
RECURSIVE SplitOn(_, _)
SplitOn(s, sep) ==
    LET i == FindChar(s, {sep}, 1)
    IN  IF i > Len(s) THEN <<s>>
        ELSE <<SubSeq(s, 1, i - 1)>> \o SplitOn(Drop(s, i), sep)

\* str.split(): runs of whitespace separate, no empty pieces
RECURSIVE SplitWhitespace(_)
SplitWhitespace(s) ==
    LET body == LStrip(s)
        i == FindChar(body, Whitespace, 1)
    IN  IF body = <<>> THEN <<>>
        ELSE <<SubSeq(body, 1, i - 1)>> \o SplitWhitespace(Drop(body, i - 1))

\* str.splitlines() on "\n"
RECURSIVE SplitLines(_)
SplitLines(s) ==
    LET i == FindChar(s, {"\n"}, 1)
    IN  IF s = <<>> THEN <<>>
        ELSE IF i > Len(s) THEN <<s>>
        ELSE <<SubSeq(s, 1, i - 1)>> \o SplitLines(Drop(s, i))

\* the 1-based index of the first occurrence of sub in s at or after i, 0 if none
Find(s, sub, i) ==
    LET hits == { j \in i..(Len(s) - Len(sub) + 1) :
                    SubSeq(s, j, j + Len(sub) - 1) = sub }
    IN  IF hits = {} THEN 0
        ELSE CHOOSE j \in hits : \A k \in hits : j <= k

Contains(s, sub) == Find(s, sub, 1) /= 0

\* str.replace(old, new): every non-overlapping occurrence, left to right
RECURSIVE Replace(_, _, _)
Replace(s, old, new) ==
    LET i == Find(s, old, 1)
    IN  IF i = 0 THEN s
        ELSE SubSeq(s, 1, i - 1) \o new
             \o Replace(Drop(s, i + Len(old) - 1), old, new)

\* re: \d+ matches the whole of s
AllDigits(s) == s /= <<>> /\ \A i \in 1..Len(s) : s[i] \in Digits

DigitValue(c) ==
    CASE c = "0" -> 0 [] c = "1" -> 1 [] c = "2" -> 2 [] c = "3" -> 3
      [] c = "4" -> 4 [] c = "5" -> 5 [] c = "6" -> 6 [] c = "7" -> 7
      [] c = "8" -> 8 [] c = "9" -> 9

DigitChar(n) ==
    CASE n = 0 -> "0" [] n = 1 -> "1" [] n = 2 -> "2" [] n = 3 -> "3"
      [] n = 4 -> "4" [] n = 5 -> "5" [] n = 6 -> "6" [] n = 7 -> "7"
      [] n = 8 -> "8" [] n = 9 -> "9"

\* int(s) of a string of decimal digits
RECURSIVE ToInt(_)
ToInt(s) ==
    IF s = <<>> THEN 0
    ELSE 10 * ToInt(SubSeq(s, 1, Len(s) - 1)) + DigitValue(s[Len(s)])

\* str(n) of an integer
RECURSIVE IntToStr(_)
IntToStr(n) ==
    IF n < 0 THEN <<"-">> \o IntToStr(0 - n)
    ELSE IF n < 10 THEN <<DigitChar(n)>>
    ELSE IntToStr(n \div 10) \o <<DigitChar(n % 10)>>

\* "sep".join(parts)
RECURSIVE Join(_, _)
Join(parts, sep) ==
    IF parts = <<>> THEN <<>>
    ELSE IF Len(parts) = 1 THEN parts[1]
    ELSE parts[1] \o sep \o Join(Tail(parts), sep)

----------------------------------------------------------------------------
(* Commit resolution: setup_cruft_tracking *)

\* The width of a full commit hash in the regular expression [0-9a-f]{40}.
ShaLen == 40

\* re.fullmatch(r"[0-9a-f]{40}", s)
IsSha(s) == Len(s) = ShaLen /\ \A i \in 1..Len(s) : s[i] \in HexDigits

\* Commit hashes the environment and git can supply.
ShaEnvA == <<"1","1","1","1","1","1","1","1","1","1","a","a","a","a","a","a","a","a","a",
       "a","2","2","2","2","2","2","2","2","2","2","b","b","b","b","b","b",
       "b","b","b","b">>
ShaEnvB == <<"3","3","3","3","3","3","3","3","3","3","c","c","c","c","c","c","c","c","c",
       "c","4","4","4","4","4","4","4","4","4","4","d","d","d","d","d","d",
       "d","d","d","d">>
ShaHead == <<"0","1","2","3","4","5","6","7","8","9","a","b","c","d","e","f","0","1","2",
       "3","4","5","6","7","8","9","a","b","c","d","e","f","0","1","2","3",
       "4","5","6","7">>
ShaRemote == <<"8","9","a","b","c","d","e","f","0","1","2","3","4","5","6","7","8","9","a",
       "b","c","d","e","f","0","1","2","3","4","5","6","7","8","9","a","b",
       "c","d","e","f">>
ShaProbe == <<"f","e","d","c","b","a","9","8","7","6","5","4","3","2","1","0","f","e","d",
       "c","b","a","9","8","7","6","5","4","3","2","1","0","f","e","d","c",
       "b","a","9","8">>
\* the object name a repository of object format sha256 prints
Sha256Head ==
    <<"0","1","2","3","4","5","6","7","8","9","a","b","c","d","e","f","0","1","2",
       "3","4","5","6","7","8","9","a","b","c","d","e","f","0","1","2","3",
       "4","5","6","7","8","9","a","b","c","d","e","f","0","1","2","3","4",
       "5","6","7","8","9","a","b","c","d","e","f">>

\* The template identifiers of the model.
TemplateLocal == <<"/","t">>
TemplateGithub == <<"h","t","t","p","s",":","/","/","g","i","t","h","u","b",".","c","o","m","/",
       "a","/","t">>
TemplateSsh == <<"g","i","t","@","h",":","t">>
TemplateDefault == <<"p","y","t","h","o","n","i","c","-","t","e","m","p","l","a","t","e">>

\* hashlib.sha1(basis.encode("utf-8")).hexdigest(), tabulated for the bases
\* the model can hash.
Sha1Hex(basis) ==
    CASE basis = TemplateDefault ->
           <<"a","1","d","3","6","4","b","6","e","a","e","2","2","8","a","1","9","3","3",
       "a","a","d","2","9","2","1","d","f","6","c","d","6","5","1","5","a",
       "e","2","4","b">>
      [] basis = TemplateLocal ->
           <<"c","9","1","1","6","6","9","a","1","f","b","5","b","7","7","c","b","8","5",
       "6","9","3","c","4","2","d","7","9","6","e","1","b","1","9","6","5",
       "3","4","e","c">>
      [] basis = TemplateGithub ->
           <<"e","8","2","0","3","1","7","5","8","8","2","0","1","8","6","3","5","b","0",
       "9","6","e","e","e","0","8","e","d","1","1","d","4","4","8","5","0",
       "4","c","c","b">>
      [] basis = TemplateSsh ->
           <<"8","b","9","e","1","5","d","0","5","c","6","2","5","5","8","c","b","1","d",
       "7","c","4","1","c","0","a","2","2","1","4","9","4","d","5","f","c",
       "2","f","5","0">>

\* What a subprocess.run of git can end as: the executable is missing (an
\* exception), a non-zero return code, or return code 0 with some stdout.
ProcResult(exc, rc, out) == [exc |-> exc, rc |-> rc, out |-> out]
GitMissing == ProcResult(TRUE, -1, <<>>)
GitFailed == ProcResult(FALSE, 128, <<>>)

RevParseResults(sha) ==
    { GitMissing, GitFailed,
      ProcResult(FALSE, 0, sha \o <<"\n">>),
      ProcResult(FALSE, 0, Sha256Head \o <<"\n">>),
      ProcResult(FALSE, 0, <<"\n">>) }

LsRemoteResults ==
    { GitMissing, GitFailed,
      ProcResult(FALSE, 0, ShaRemote \o <<"\t","H","E","A","D","\n">>),
      ProcResult(FALSE, 0, Sha256Head \o <<"\t","H","E","A","D","\n">>),
      ProcResult(FALSE, 0, <<>>) }

\* _run_command: stdout stripped when the command succeeded and printed
\* something, None otherwise
_run_command(res) ==
    IF ~res.exc /\ res.rc = 0 /\ res.out /= <<>> THEN Str(Strip(res.out))
    ELSE PyNone

\* The states of .cruft.json: absent; present but unreadable (OSError);
\* bytes that are not UTF-8 (UnicodeDecodeError); text that is not JSON
\* (JSONDecodeError); or a JSON document.  fmt tells the cookiecutter-rendered
\* text from the text json.dumps(data, indent=4) writes.
CruftFile(kind, data, fmt) == [kind |-> kind, data |-> data, fmt |-> fmt]
FileMissing == CruftFile("missing", PyNone, "none")
FileUnreadable == CruftFile("unreadable", PyNone, "none")
FileNotUtf8 == CruftFile("notutf8", PyNone, "none")
FileBadJson == CruftFile("badjson", PyNone, "rendered")
JsonFile(data) == CruftFile("json", data, "rendered")

Context == Obj([cookiecutter |-> Obj([project_type |-> Str(<<"s","t","a","n","d","a","r","d">>)])])

TemplateValues ==
    { Str(<<>>), Str(TemplateLocal), Str(TemplateGithub), Str(TemplateSsh),
      PyNone, Num(5) }
CommitValues ==
    { PyNone, Str(<<>>), Str(ShaHead), Str(<<"a","b","c">>), Num(7) }

\* .cruft.json as an object: with or without "template", with or without
\* "commit", always with "context"
CruftObjects ==
    { Obj([context |-> Context]) }
    \cup { Obj([context |-> Context, template |-> tv]) : tv \in TemplateValues }
    \cup { Obj([context |-> Context, template |-> tv, commit |-> cv]) :
             tv \in TemplateValues, cv \in CommitValues }

CruftFiles ==
    { FileMissing, FileUnreadable, FileNotUtf8, FileBadJson,
      JsonFile(List(<<>>)), JsonFile(Num(1)), JsonFile(PyNone) }
    \cup { JsonFile(o) : o \in CruftObjects }

EnvVars == <<"COOKIECUTTER_TEMPLATE_COMMIT", "GITHUB_SHA">>
EnvNames == { EnvVars[i] : i \in 1..Len(EnvVars) }
\* unset, a full lowercase hash, an upper-case hash; for GITHUB_SHA also an
\* abbreviated hash and the empty string
EnvValues(sha) ==
    { PyNone, Str(sha), Str(<<"0","1","2","3","4","5","6","7","8","9","A","B","C","D","E","F","0","1","2",
       "3","4","5","6","7","8","9","A","B","C","D","E","F","0","1","2","3",
       "4","5","6","7">>) }
Environs ==
    { [n \in EnvNames |->
         IF n = "COOKIECUTTER_TEMPLATE_COMMIT" THEN a ELSE b] :
        a \in EnvValues(ShaEnvA),
        b \in { PyNone, Str(ShaEnvB), Str(<<"a","b","c","1","2","3","4">>), Str(<<>>) } }

\* The directories setup_cruft_tracking probes for a checkout of the template.
ProbePath(dir, name) == [dir |-> dir, name |-> name]

\* template.rstrip("/").split("/")[-1]
RepoName(template) ==
    LET parts == SplitOn(RStripSet(template, {"/"}), "/")
    IN  parts[Len(parts)]

GithubPrefix == <<"h","t","t","p","s",":","/","/","g","i","t","h","u","b",".","c","o","m">>
RemotePrefixes == { <<"h","t","t","p",":","/","/">>, <<"h","t","t","p","s",":","/","/">>, <<"g","i","t","@">>, <<"g","i","t",":","/","/">> }

\* probes, in the order they are tried
Probes(template) ==
    <<ProbePath("parent", TemplateDefault), ProbePath("home", TemplateDefault)>>
    \o (IF template.t = "str" /\ StartsWith(template.v, GithubPrefix)
           /\ RepoName(template.v) /= <<>>
        THEN <<ProbePath("home", RepoName(template.v))>>
        ELSE <<>>)

ProbePaths ==
    { ProbePath("parent", TemplateDefault), ProbePath("home", TemplateDefault),
      ProbePath("home", <<"t">>) }

\* Which directories are git checkouts: the template path (where the template
\* is a path that exists) and the probe paths.
GitRepos == [template : BOOLEAN, probes : SUBSET ProbePaths]

\* One git command the call ran, and what _run_command returned for it.
Call(strategy, at, value) == [strategy |-> strategy, at |-> at, value |-> value]
AtTemplate == ProbePath("template", <<>>)

\* The resolution in progress: known_commit, the strategy that supplied it,
\* the git commands run, and the exception raised, if any.
Resolution(known_commit, strategy, calls, exc) ==
    [known_commit |-> known_commit, strategy |-> strategy, calls |-> calls,
     exc |-> exc]

\* lines 268-274: the first environment variable, from the i-th on, that holds
\* 40 lowercase hex characters
EnvCommitUnchecked(env, i) ==
    LET held == { j \in i..Len(EnvVars) : Truthy(env[EnvVars[j]]) }
    IN  IF held = {} THEN PyNone
        ELSE env[EnvVars[CHOOSE j \in held : \A k \in held : j <= k]]
RECURSIVE EnvCommit(_, _)
EnvCommit(env, i) ==
    IF i > Len(EnvVars) THEN PyNone
    ELSE LET val == env[EnvVars[i]]
         IN  IF Truthy(val) /\ IsSha(val.v) THEN val
             ELSE EnvCommit(env, i + 1)

FromEnv(env) ==
    LET val == EnvCommit(env, 1)
    IN  IF Truthy(val)
        THEN Resolution(val, "env", <<>>, "none")
        ELSE Resolution(PyNone, "none", <<>>, "none")

\* "if not known_commit": the guard of every strategy after the environment
StillUnknownUnguarded(r) == r.exc = "none"
StillUnknown(r) == r.exc = "none" /\ ~Truthy(r.known_commit)

\* r after a git command of the strategy returned out
Ran(r, strategy, at, out, commit) ==
    [r EXCEPT !.known_commit = commit,
              !.strategy = IF Truthy(commit) THEN strategy ELSE r.strategy,
              !.calls = Append(r.calls, Call(strategy, at, out))]

\* lines 276-280: Method 1, git rev-parse HEAD in the template path; one
\* resolution per result of the command.  Path(template) raises TypeError for
\* a truthy template that is not a string.
FromTemplatePath(r, template, repos) ==
    IF ~StillUnknown(r) \/ ~Truthy(template) THEN {r}
    ELSE IF template.t /= "str" THEN {[r EXCEPT !.exc = "TypeError"]}
    ELSE IF ~repos.template THEN {r}
    ELSE { Ran(r, "template_path", AtTemplate, _run_command(res),
               _run_command(res)) : res \in RevParseResults(ShaHead) }

\* line 283: the template is a remote URL
IsRemote(template) ==
    /\ template.t = "str"
    /\ \E p \in RemotePrefixes : StartsWith(template.v, p)

\* line 286: remote_output.split()[0]
FirstField(remote_output) == SplitWhitespace(remote_output)[1]

\* lines 282-287: Method 2, git ls-remote for a remote template
FromRemote(r, template) ==
    IF ~StillUnknown(r) \/ ~IsRemote(template) THEN {r}
    ELSE { LET out == _run_command(res)
           IN  IF Truthy(out)
               THEN Ran(r, "ls_remote", AtTemplate, out, Str(FirstField(out.v)))
               ELSE Ran(r, "ls_remote", AtTemplate, out, r.known_commit)
           : res \in LsRemoteResults }

\* lines 299-305: the probes from the i-th on, until one yields a commit
RECURSIVE ProbeLoop(_, _, _, _)
ProbeLoop(r, probes, i, repos) ==
    IF i > Len(probes) THEN {r}
    ELSE IF probes[i] \notin repos.probes THEN ProbeLoop(r, probes, i + 1, repos)
    ELSE UNION { LET sha == _run_command(res)
                 IN  IF Truthy(sha)
                     THEN {Ran(r, "probe", probes[i], sha, sha)}
                     ELSE ProbeLoop(Ran(r, "probe", probes[i], sha,
                                        r.known_commit),
                                    probes, i + 1, repos)
                 : res \in RevParseResults(ShaProbe) }

\* lines 289-305: Method 3, local probing
FromProbes(r, template, repos) ==
    IF ~StillUnknown(r) THEN {r}
    ELSE ProbeLoop(r, Probes(template), 1, repos)

\* line 309
SyntheticBasisFixed(template) == TemplateDefault
SyntheticBasis(template) ==
    IF template.t = "str" /\ Truthy(template) THEN template.v
    ELSE TemplateDefault

\* lines 307-311: the synthetic hash of the template identifier
Synthetic(r, template) ==
    IF ~StillUnknown(r) THEN r
    ELSE [r EXCEPT !.known_commit = Str(Sha1Hex(SyntheticBasis(template))),
                   !.strategy = "synthetic"]

\* lines 265-311: the strategies in their order; every way the resolution can
\* end, over the results of the git commands it runs
Resolve(template, env, repos) ==
    UNION { UNION { { Synthetic(r3, template) :
                        r3 \in FromProbes(r2, template, repos) }
                    : r2 \in FromRemote(r1, template) }
            : r1 \in FromTemplatePath(FromEnv(env), template, repos) }

\* line 261: data.get("commit") is truthy
CommitAlreadySetWrongKey(data) == Truthy(DictGet(data, "commit_hash", PyNone))
CommitAlreadySet(data) == Truthy(DictGet(data, "commit", PyNone))

\* line 262: data['commit'][:8] can be taken of a string or a list
Sliceable(x) == x.t \in {"str", "list"}

\* How a call of setup_cruft_tracking ends.
\*   outcome: "skipped" (no file), "already" (commit was set), "failed" (an
\*     OSError or JSONDecodeError, caught and logged), "written", "raised"
CruftResult(outcome, exc, strategy, calls) ==
    [outcome |-> outcome, exc |-> exc, strategy |-> strategy, calls |-> calls]
NoCruftResult == CruftResult("none", "none", "none", <<>>)
EndedWithFreshFile(file, outcome, exc) ==
    {[file |-> IF outcome \in {"skipped", "failed"}
               THEN CruftFile("json",
                              Obj([commit |-> Str(Sha1Hex(TemplateDefault))]),
                              "indent4")
               ELSE file,
      result |-> CruftResult(outcome, exc, "none", <<>>)]}
Ended(file, outcome, exc) ==
    {[file |-> file, result |-> CruftResult(outcome, exc, "none", <<>>)]}

\* lines 313-316: the commit is stored and the file written, unless the write
\* fails with an OSError
WriteCommitAndProbe(file, r, writable) ==
    IF r.exc /= "none"
    THEN [file |-> file,
          result |-> CruftResult("raised", r.exc, "none", r.calls)]
    ELSE IF ~writable
    THEN [file |-> file,
          result |-> CruftResult("failed", "OSError", r.strategy, r.calls)]
    ELSE [file |-> CruftFile("json",
                             DictSet(IF r.strategy = "probe"
                                     THEN DictSet(file.data, "template",
                                                  Str(r.calls[Len(r.calls)].at.name))
                                     ELSE file.data,
                                     "commit", r.known_commit),
                             "indent4"),
          result |-> CruftResult("written", "none", r.strategy, r.calls)]
WriteCommit(file, r, writable) ==
    IF r.exc /= "none"
    THEN [file |-> file,
          result |-> CruftResult("raised", r.exc, "none", r.calls)]
    ELSE IF ~writable
    THEN [file |-> file,
          result |-> CruftResult("failed", "OSError", r.strategy, r.calls)]
    ELSE [file |-> CruftFile("json",
                             DictSet(file.data, "commit", r.known_commit),
                             "indent4"),
          result |-> CruftResult("written", "none", r.strategy, r.calls)]

\* lines 249-319: every way a call can end: the file after it, and the result
SetupCruft(file, env, repos) ==
    IF file.kind = "missing" THEN Ended(file, "skipped", "none")
    ELSE IF file.kind = "unreadable" THEN Ended(file, "failed", "OSError")
    ELSE IF file.kind = "notutf8" THEN Ended(file, "raised", "UnicodeDecodeError")
    ELSE IF file.kind = "badjson" THEN Ended(file, "failed", "JSONDecodeError")
    ELSE IF file.data.t /= "obj" THEN Ended(file, "raised", "AttributeError")
    ELSE IF CommitAlreadySet(file.data)
    THEN IF Sliceable(DictGet(file.data, "commit", PyNone))
         THEN Ended(file, "already", "none")
         ELSE Ended(file, "raised", "TypeError")
    ELSE { WriteCommit(file, r, writable) :
             r \in Resolve(DictGet(file.data, "template", Str(<<>>)), env, repos),
             writable \in BOOLEAN }

\* A call of setup_cruft_tracking in the project directory.
SetupCruftTracking ==
    /\ \E run \in SetupCruft(cruft_file, environ, git_repos) :
         /\ cruft_file' = run.file
         /\ cruft_result' = run.result
    /\ UNCHANGED <<environ, git_repos>>

\* Between calls the environment variables may change ...  (cruft_result
\* tells how the last call in the present environment ended.)
SetEnviron ==
    /\ \E env \in Environs \ {environ} : environ' = env
    /\ cruft_result' = NoCruftResult
    /\ UNCHANGED <<cruft_file, git_repos>>

\* ... and so may the git checkouts around the project.
SetGitRepos ==
    /\ \E repos \in GitRepos \ {git_repos} : git_repos' = repos
    /\ cruft_result' = NoCruftResult
    /\ UNCHANGED <<cruft_file, environ>>

----------------------------------------------------------------------------
(* Version discovery: discover_python_versions *)

\* the longest list of entries (uv, endoflife.date) or lines (pyenv) a source
\* prints in the model
MaxEntries == 2

\* re.match(r"^\d+\.\d+\.\d+$", s)
IsXYZ(s) ==
    LET parts == SplitOn(s, ".")
    IN  Len(parts) = 3 /\ \A i \in 1..3 : AllDigits(parts[i])

\* re.match(r"^\d+\.\d+$", s)
IsXY(s) ==
    LET parts == SplitOn(s, ".")
    IN  Len(parts) = 2 /\ \A i \in 1..2 : AllDigits(parts[i])

\* normalize_version: the stripped string when it is X.Y.Z, None otherwise
normalize_version(version_str) ==
    IF IsXYZ(Strip(version_str)) THEN Str(Strip(version_str)) ELSE PyNone

\* tuple(map(int, x.split(".")))
IntTuple(x) ==
    LET parts == SplitOn(x, ".")
    IN  [i \in 1..Len(parts) |-> ToInt(parts[i])]

\* a < b for tuples of integers of one length
RECURSIVE TupleLess(_, _)
TupleLess(a, b) ==
    IF a = <<>> \/ b = <<>> THEN a = <<>> /\ b /= <<>>
    ELSE IF Head(a) /= Head(b) THEN Head(a) < Head(b)
    ELSE TupleLess(Tail(a), Tail(b))

\* line 63: f"{major}.{minor}"
MinorKey(version) ==
    LET t == IntTuple(version)
    IN  IntToStr(t[1]) \o <<".">> \o IntToStr(t[2])

\* lines 60-65: the keys of best_versions, in insertion order (the patch kept
\* for a key is never read)
BestKeysRepeated(stable_versions, keys) ==
    keys \o [i \in 1..Len(stable_versions) |-> MinorKey(stable_versions[i])]
RECURSIVE BestKeys(_, _)
BestKeys(stable_versions, keys) ==
    IF stable_versions = <<>> THEN keys
    ELSE LET key == MinorKey(Head(stable_versions))
         IN  BestKeys(Tail(stable_versions),
                      IF \E i \in 1..Len(keys) : keys[i] = key THEN keys
                      ELSE Append(keys, key))

\* sorted(): x inserted into the sorted list after the items not greater
RECURSIVE InsertSorted(_, _)
InsertSorted(sorted, x) ==
    IF sorted = <<>> THEN <<x>>
    ELSE IF TupleLess(IntTuple(x), IntTuple(Head(sorted)))
         THEN <<x>> \o sorted
         ELSE <<Head(sorted)>> \o InsertSorted(Tail(sorted), x)

RECURSIVE SortedByVersion(_)
SortedByVersion(keys) ==
    IF keys = <<>> THEN <<>>
    ELSE InsertSorted(SortedByVersion(SubSeq(keys, 1, Len(keys) - 1)),
                      keys[Len(keys)])

\* get_unique_minors
get_unique_minors_unsorted(stable_versions) == BestKeys(stable_versions, <<>>)
get_unique_minors(stable_versions) ==
    SortedByVersion(BestKeys(stable_versions, <<>>))

\* What a discover_from_* function ends as: a list of versions, None, or an
\* exception raised to discover_python_versions.
Found(versions) == [outcome |-> "versions", versions |-> versions]
Nothing == [outcome |-> "nothing", versions |-> <<>>]
Raised == [outcome |-> "raised", versions |-> <<>>]

\* lines 98, 113, 141
UniqueOrNone(stable_versions) ==
    IF stable_versions /= <<>> THEN Found(get_unique_minors(stable_versions))
    ELSE Nothing

\* "for entry in data": the items a loop over a JSON value visits; a number,
\* null or a boolean is not iterable, a string yields its characters and an
\* object its keys
Iterable(data) == data.t \in {"list", "str", "obj"}
Items(data) ==
    CASE data.t = "list" -> data.v
      [] data.t = "str" -> [i \in 1..Len(data.v) |-> Str(<<data.v[i]>>)]
      [] data.t = "obj" -> IF DOMAIN data.v = {} THEN <<>> ELSE <<Str(<<"k">>)>>

\* lines 92-96: the loop of discover_from_uv from the i-th entry on;
\* entry.get needs an object, version.strip a string
RECURSIVE UvLoop(_, _, _)
UvLoop(entries, i, stable_versions) ==
    IF i > Len(entries) THEN UniqueOrNone(stable_versions)
    ELSE LET entry == entries[i]
         IN  IF entry.t /= "obj" THEN Raised
             ELSE IF DictGet(entry, "implementation", PyNone) /= Str(<<"c","p","y","t","h","o","n">>)
             THEN UvLoop(entries, i + 1, stable_versions)
             ELSE IF DictGet(entry, "version", Str(<<>>)).t /= "str" THEN Raised
             ELSE LET version ==
                          normalize_version(DictGet(entry, "version", Str(<<>>)).v)
                  IN  UvLoop(entries, i + 1,
                             IF Truthy(version)
                             THEN Append(stable_versions, version.v)
                             ELSE stable_versions)

\* A JSON text: not JSON, or a document.
NotJson == [json |-> "invalid", value |-> PyNone]
JsonDoc(value) == [json |-> "doc", value |-> value]

\* run_silent of a command: (returncode, stdout), (1, "") on an exception;
\* the stdout of uv as a JSON text, that of pyenv as text
Silent(rc, doc) == [rc |-> rc, doc |-> doc]
SilentText(rc, text) == [rc |-> rc, text |-> text]

\* discover_from_uv, given what run_silent returned for uv python list
discover_from_uv(ran) ==
    IF ran.rc /= 0 THEN Nothing
    ELSE IF ran.doc.json = "invalid" THEN Nothing
    ELSE IF ~Iterable(ran.doc.value) THEN Raised
    ELSE UvLoop(Items(ran.doc.value), 1, <<>>)

\* lines 108-111: the loop of discover_from_pyenv
RECURSIVE PyenvLoop(_, _, _)
PyenvLoop(lines, i, stable_versions) ==
    IF i > Len(lines) THEN UniqueOrNone(stable_versions)
    ELSE LET version == normalize_version(Strip(lines[i]))
         IN  PyenvLoop(lines, i + 1,
                       IF Truthy(version) THEN Append(stable_versions, version.v)
                       ELSE stable_versions)

\* discover_from_pyenv, given what run_silent returned for pyenv install -l
discover_from_pyenv(ran) ==
    IF ran.rc /= 0 \/ Strip(ran.text) = <<>> THEN Nothing
    ELSE PyenvLoop(SplitLines(ran.text), 1, <<>>)

\* lines 129-139: the loop of discover_from_endoflife; "latest" is stripped
\* (a string is needed), "cycle" is matched (a string is needed)
RECURSIVE EndoflifeLoop(_, _, _)
EndoflifeLoop(entries, i, stable_versions) ==
    IF i > Len(entries) THEN UniqueOrNone(stable_versions)
    ELSE LET entry == entries[i]
         IN  IF entry.t /= "obj" THEN Raised
             ELSE IF DictGet(entry, "latest", Str(<<>>)).t /= "str" THEN Raised
             ELSE LET version ==
                          normalize_version(DictGet(entry, "latest", Str(<<>>)).v)
                      cycle == DictGet(entry, "cycle", Str(<<>>))
                  IN  IF Truthy(version)
                      THEN EndoflifeLoop(entries, i + 1,
                                         Append(stable_versions, version.v))
                      ELSE IF cycle.t /= "str" THEN Raised
                      ELSE EndoflifeLoop(entries, i + 1,
                                         IF IsXY(cycle.v)
                                         THEN Append(stable_versions,
                                                     cycle.v \o <<".","0">>)
                                         ELSE stable_versions)

\* What the request to endoflife.date ends as: an exception (no network, a
\* timeout, an HTTP error), or a body that is blank, not JSON, or a document.
Fetched(ok, blank, body) == [ok |-> ok, blank |-> blank, body |-> body]

\* discover_from_endoflife, given how the request ended
discover_from_endoflife(got) ==
    IF ~got.ok \/ got.blank \/ got.body.json = "invalid" THEN Nothing
    ELSE IF ~Iterable(got.body.value) THEN Raised
    ELSE EndoflifeLoop(Items(got.body.value), 1, <<>>)

\* The lists of at most n items of S.
RECURSIVE ListsUpTo(_, _)
ListsUpTo(S, n) ==
    IF n = 0 THEN {<<>>}
    ELSE LET shorter == ListsUpTo(S, n - 1)
         IN  shorter \cup { Append(l, x) : l \in shorter, x \in S }

UvEntry(implementation, version) ==
    Obj([implementation |-> implementation, version |-> version])
UvEntries ==
    { UvEntry(Str(<<"c","p","y","t","h","o","n">>), Str(<<"3",".","1","2",".","1">>)),
      UvEntry(Str(<<"c","p","y","t","h","o","n">>), Str(<<"3",".","1","2",".","7">>)),
      UvEntry(Str(<<"c","p","y","t","h","o","n">>), Str(<<"3",".","9",".","1","8">>)),
      UvEntry(Str(<<"c","p","y","t","h","o","n">>), Str(<<"3",".","1","0",".","4">>)),
      UvEntry(Str(<<"c","p","y","t","h","o","n">>), Str(<<"3",".","1","4",".","0","r","c","1">>)),
      UvEntry(Str(<<"p","y","p","y">>), Str(<<"3",".","1","1",".","1","3">>)),
      UvEntry(Str(<<"c","p","y","t","h","o","n">>), PyNone),
      Obj([implementation |-> Str(<<"c","p","y","t","h","o","n">>)]),
      Str(<<"3",".","1","3",".","0">>) }

\* what run_silent can return for uv python list --releases --format json
UvOutputs ==
    { Silent(1, NotJson), Silent(2, JsonDoc(List(<<>>))), Silent(0, NotJson),
      Silent(0, JsonDoc(PyNone)), Silent(0, JsonDoc(Num(3))),
      Silent(0, JsonDoc(Obj([versions |-> List(<<>>)]))) }
    \cup { Silent(0, JsonDoc(List(l))) : l \in ListsUpTo(UvEntries, MaxEntries) }

PyenvLines ==
    { <<"A","v","a","i","l","a","b","l","e"," ","v","e","r","s","i","o","n","s",":">>, <<" "," ","3",".","1","2",".","1">>, <<" "," ","3",".","1","2",".","7">>, <<" "," ","3",".","9",".","1","8">>,
      <<" "," ","3",".","1","0",".","4">>, <<" "," ","3",".","1","4",".","0","a","1">>, <<" "," ","p","y","p","y","3",".","1","0","-","7",".","3",".","1","5">>, <<" "," ","0","3",".","0","1","3",".","0">> }

\* what run_silent can return for pyenv install -l
PyenvOutputs ==
    { SilentText(1, <<>>), SilentText(0, <<>>), SilentText(0, <<" ","\n">>) }
    \cup { SilentText(0, Join(l, <<"\n">>) \o <<"\n">>) :
             l \in ListsUpTo(PyenvLines, MaxEntries) \ {<<>>} }

EndoflifeEntries ==
    { Obj([cycle |-> Str(<<"3",".","1","3">>), latest |-> Str(<<"3",".","1","3",".","1">>)]),
      Obj([cycle |-> Str(<<"3",".","9">>), latest |-> Str(<<"3",".","9",".","2","1">>)]),
      Obj([cycle |-> Str(<<"3",".","1","0">>), latest |-> Str(<<"3",".","1","0",".","1","6">>)]),
      Obj([cycle |-> Str(<<"3",".","1","4">>), latest |-> Str(<<"3",".","1","4",".","0","r","c","1">>)]),
      Obj([cycle |-> Str(<<"3",".","1","2">>)]),
      Obj([cycle |-> Str(<<"2",".","7">>), latest |-> PyNone]),
      Obj([cycle |-> Num(3), latest |-> Str(<<>>)]),
      Obj([latest |-> Str(<<"n","/","a">>)]),
      Num(3) }

\* how the request to https://endoflife.date/api/python.json can end
EndoflifeOutputs ==
    { Fetched(FALSE, TRUE, NotJson), Fetched(TRUE, TRUE, NotJson),
      Fetched(TRUE, FALSE, NotJson), Fetched(TRUE, FALSE, JsonDoc(PyNone)),
      Fetched(TRUE, FALSE, JsonDoc(Str(<<"e","r","r">>))) }
    \cup { Fetched(TRUE, FALSE, JsonDoc(List(l))) :
             l \in ListsUpTo(EndoflifeEntries, MaxEntries) }

\* lines 148-152: the methods in the order they are tried
Methods == <<"uv", "pyenv", "endoflife.date">>

\* line 155: method_func() over everything the source can print
Tries(method) ==
    CASE method = "uv" ->
           { [output |-> o, got |-> discover_from_uv(o)] : o \in UvOutputs }
      [] method = "pyenv" ->
           { [output |-> o, got |-> discover_from_pyenv(o)] : o \in PyenvOutputs }
      [] method = "endoflife.date" ->
           { [output |-> o, got |-> discover_from_endoflife(o)] :
               o \in EndoflifeOutputs }

\* line 163
Fallback == << <<"3",".","1","2">>, <<"3",".","1","3">>, <<"3",".","1","4">> >>

\* One query of the loop: the method and how it ended.
Query(method, got) == [method |-> method, got |-> got]

\* The call in progress or ended: the queries made, whether it returned, what
\* it returned, through which method ("fallback" for the default list), and
\* what the source that supplied the versions printed.
Discovery(queried, returned, versions, via, output) ==
    [queried |-> queried, returned |-> returned, versions |-> versions,
     via |-> via, output |-> output]
NoDiscovery == Discovery(<<>>, FALSE, <<>>, "none", PyNone)

\* line 156: "if versions:"
YieldsAlways(got) == got.outcome /= "raised"
Yields(got) == got.outcome = "versions" /\ got.versions /= <<>>

\* lines 153-160: one iteration of the loop, over every output of the source
TryMethod(d, method) ==
    IF d.returned THEN {d}
    ELSE { IF Yields(try.got)
           THEN Discovery(Append(d.queried, Query(method, try.got)), TRUE,
                          try.got.versions, method, try.output)
           ELSE Discovery(Append(d.queried, Query(method, try.got)), FALSE,
                          <<>>, "none", PyNone)
           : try \in Tries(method) }

\* the loop from the i-th method on
RECURSIVE TryMethods(_, _)
TryMethods(ds, i) ==
    IF i > Len(Methods) THEN ds
    ELSE TryMethods(UNION { TryMethod(d, Methods[i]) : d \in ds }, i + 1)

\* lines 162-165
UseFallback(d) ==
    IF d.returned THEN d
    ELSE [d EXCEPT !.returned = TRUE, !.versions = Fallback, !.via = "fallback"]

\* discover_python_versions: every way a call can end
DiscoverOutcomes == { UseFallback(d) : d \in TryMethods({NoDiscovery}, 1) }

\* A call of discover_python_versions.
DiscoverPythonVersions ==
    /\ ~dpv.returned
    /\ \E d \in DiscoverOutcomes : dpv' = d

----------------------------------------------------------------------------
(* Token substitution: setup_python_versions *)

\* the most files of the project directory that exist in the model
MaxFiles == 2

\* the i-th character on of s is whitespace: the index after the run
RECURSIVE SkipWhitespace(_, _)
SkipWhitespace(s, i) ==
    IF i <= Len(s) /\ s[i] \in Whitespace THEN SkipWhitespace(s, i + 1) ELSE i

\* the index after the digits that start at the i-th character of s
RECURSIVE SkipDigits(_, _)
SkipDigits(s, i) ==
    IF i <= Len(s) /\ s[i] \in Digits THEN SkipDigits(s, i + 1) ELSE i

\* a match of  op =? \s* 3 \. (\d+)  that starts at the i-th character of s:
\* the digits of the group, <<>> when there is no match there ("=" is tried,
\* as the source's ">=?" does, only where optional is set)
MinorAt(s, i, op, optional) ==
    IF i > Len(s) \/ s[i] /= op THEN <<>>
    ELSE LET j == IF optional /\ i + 1 <= Len(s) /\ s[i + 1] = "=" THEN i + 2
                  ELSE i + 1
             k == SkipWhitespace(s, j)
         IN  IF k + 1 <= Len(s) /\ s[k] = "3" /\ s[k + 1] = "."
             THEN SubSeq(s, k + 2, SkipDigits(s, k + 2) - 1)
             ELSE <<>>

\* re.search of that pattern: the group of the leftmost match, <<>> if none
RECURSIVE SearchMinor(_, _, _, _)
SearchMinor(s, i, op, optional) ==
    IF i > Len(s) THEN <<>>
    ELSE IF MinorAt(s, i, op, optional) /= <<>> THEN MinorAt(s, i, op, optional)
    ELSE SearchMinor(s, i + 1, op, optional)

\* parse_requires_python: (min, max) of a requires-python specifier; default
\* is the minor taken when the specifier has no lower bound (10 in
\* scripts/lib/python_versions.py, 12 in the hook's local fallback)
parse_requires_python_inclusive(spec, default) ==
    LET min_m == SearchMinor(spec, 1, ">", TRUE)
        max_m == SearchMinor(spec, 1, "<", FALSE)
        lo == IF min_m /= <<>> THEN ToInt(min_m) ELSE default
        hi == IF max_m /= <<>> THEN ToInt(max_m) ELSE lo
    IN  [lo |-> <<"3",".">> \o IntToStr(lo), hi |-> <<"3",".">> \o IntToStr(hi)]
parse_requires_python(spec, default) ==
    LET min_m == SearchMinor(spec, 1, ">", TRUE)
        max_m == SearchMinor(spec, 1, "<", FALSE)
        lo == IF min_m /= <<>> THEN ToInt(min_m) ELSE default
        hi == IF max_m /= <<>> THEN ToInt(max_m) - 1 ELSE lo
    IN  [lo |-> <<"3",".">> \o IntToStr(lo), hi |-> <<"3",".">> \o IntToStr(hi)]

DefaultMinorLib == 10
DefaultMinorHook == 12

\* line 197: json.dumps of a list of strings
RECURSIVE JsonDumpsItems(_)
JsonDumpsItems(items) ==
    IF items = <<>> THEN <<>>
    ELSE <<"\"">> \o Head(items) \o <<"\"">>
         \o (IF Len(items) > 1 THEN <<","," ">> ELSE <<>>)
         \o JsonDumpsItems(Tail(items))
JsonDumpsList(items) == <<"[">> \o JsonDumpsItems(items) \o <<"]">>

\* line 203
Classifier(v) == <<" "," "," "," ","\"","P","r","o","g","r","a","m","m","i","n","g"," ","L",
       "a","n","g","u","a","g","e"," ",":",":"," ","P","y","t","h","o","n",
       " ",":",":"," ">> \o v \o <<"\"",",">>

\* line 199: lo.replace(".", "")
PyShortKeepsDot(lo) == lo
PyShort(lo) == Replace(lo, <<".">>, <<>>)

\* lines 195-204: the tokens and their replacements, in the order of the dict
Token(token, replacement) == [token |-> token, replacement |-> replacement]
Tokens(lo, hi, day) ==
    LET matrix_versions == IF lo = hi THEN <<lo>> ELSE <<lo, hi>>
    IN  << Token(<<"_","_","P","Y","_","M","I","N","_","_">>, lo),
           Token(<<"_","_","P","Y","_","M","A","T","R","I","X","_","_">>, JsonDumpsList(matrix_versions)),
           Token(<<"_","_","P","Y","_","M","A","X","_","_">>, hi),
           Token(<<"_","_","P","Y","_","S","H","O","R","T","_","_">>, PyShort(lo)),
           Token(<<"_","_","R","E","L","E","A","S","E","_","D","A","T","E","_","_">>, day),
           Token(<<"_","_","P","Y","_","C","L","A","S","S","I","F","I","E","R","S","_","_">>,
                 Join([i \in 1..Len(matrix_versions) |->
                         Classifier(matrix_versions[i])], <<"\n">>)) >>

\* lines 208-217
target_files_without_changelog ==
    << ".github/workflows/ci.yml", ".github/workflows/docs.yml",
       ".github/workflows/publish.yml", ".github/workflows/render-paper.yml",
       "README.md", "pyproject.toml", "docs/development/contributing.md" >>
target_files ==
    << ".github/workflows/ci.yml", ".github/workflows/docs.yml",
       ".github/workflows/publish.yml", ".github/workflows/render-paper.yml",
       "README.md", "pyproject.toml", "docs/development/changelog.md",
       "docs/development/contributing.md" >>

\* lines 228-229: the replacements applied one after another
RECURSIVE ReplaceTokens(_, _, _)
ReplaceTokens(content, tokens, i) ==
    IF i > Len(tokens) THEN content
    ELSE ReplaceTokens(Replace(content, tokens[i].token, tokens[i].replacement),
                       tokens, i + 1)

\* A file of the project directory: absent; text that can be read and
\* written; text that can be read but not written; or a file read_text fails
\* on (no permission, not UTF-8).
ProjectFile(kind, text) == [kind |-> kind, text |-> text]
Absent == ProjectFile("absent", <<>>)
Unreadable == ProjectFile("unreadable", <<>>)
TextFile(text) == ProjectFile("text", text)
ReadOnly(text) == ProjectFile("readonly", text)

\* How a call of setup_python_versions ends: "completed", or "raised" with
\* the call that raised (read_text, write_text) and the file it was made on.
TokensResult(outcome, exc, at) == [outcome |-> outcome, exc |-> exc, at |-> at]
NoTokensResult == TokensResult("none", "none", "none")

\* lines 220-233: the loop over target_files from the i-th on
RECURSIVE TargetLoop(_, _, _)
TargetLoop(fs, tokens, i) ==
    IF i > Len(target_files)
    THEN [files |-> fs, result |-> TokensResult("completed", "none", "none")]
    ELSE LET file_path == target_files[i]
             f == fs[file_path]
             content == ReplaceTokens(f.text, tokens, 1)
         IN  IF f.kind = "absent" THEN TargetLoop(fs, tokens, i + 1)
             ELSE IF f.kind = "unreadable"
             THEN [files |-> fs,
                   result |-> TokensResult("raised", "read_text", file_path)]
             ELSE IF content = f.text THEN TargetLoop(fs, tokens, i + 1)
             ELSE IF f.kind = "readonly"
             THEN [files |-> fs,
                   result |-> TokensResult("raised", "write_text", file_path)]
             ELSE TargetLoop([fs EXCEPT ![file_path] = TextFile(content)],
                             tokens, i + 1)

\* setup_python_versions: the files after the call and how it ended
SetupPython(fs, version, day, default) ==
    LET min_version == Strip(version)
        parsed == parse_requires_python(<<">","=">> \o min_version, default)
    IN  TargetLoop(fs, Tokens(parsed.lo, parsed.hi, day), 1)

\* The versions cookiecutter offers for python_version.
PythonVersions == { <<"3",".","1","2">>, <<"3",".","1","3">>, <<"3",".","1","4">> }
Days == { <<"2","0","2","5","-","0","1","-","3","1">>, <<"2","0","2","6","-","1","1","-","0","3">> }

\* Text the template renders into the files the hook rewrites.
PyprojectRendered ==
    <<"r","e","q","u","i","r","e","s","-","p","y","t","h","o","n"," ","="," ",
       "\"",">","=","_","_","P","Y","_","M","I","N","_","_","\"","\n","c",
       "l","a","s","s","i","f","i","e","r","s"," ","="," ","[","\n","_","_",
       "P","Y","_","C","L","A","S","S","I","F","I","E","R","S","_","_","\n",
       "]","\n","t","a","r","g","e","t","-","v","e","r","s","i","o","n"," ",
       "="," ","\"","p","y","_","_","P","Y","_","S","H","O","R","T","_","_",
       "\"","\n">>
WorkflowRendered ==
    <<"p","y","t","h","o","n","-","v","e","r","s","i","o","n",":"," ","_","_","P",
       "Y","_","M","A","T","R","I","X","_","_","\n","i","f",":"," ","m","a",
       "t","r","i","x",".","p","y","t","h","o","n","-","v","e","r","s","i",
       "o","n"," ","=","="," ","'","_","_","P","Y","_","M","A","X","_","_",
       "'","\n">>
ReadmeRendered == <<"P","y","t","h","o","n"," ","_","_","P","Y","_","M","I","N","_","_","+">>
ChangelogRendered == <<"#","#"," ","[","0",".","1",".","0","]"," ","-"," ","_","_","R","E","L","E",
       "A","S","E","_","D","A","T","E","_","_">>
\* tokens side by side, overlapping, and one inside another
TokensAdjacent == <<"_","_","P","Y","_","M","I","N","_","_","_","_","P","Y","_","M","A","X","_",
       "_","P","Y","_","M","A","X","_","_",",","_","_","P","Y","_","_","_",
       "P","Y","_","S","H","O","R","T","_","_","M","I","N","_","_">>
NoTokens == <<"M","I","T"," ","L","i","c","e","n","s","e">>

\* A file outside target_files that the template renders.
OtherFiles == { "LICENSE" }

\* The files the template renders tokens into, and the project's files.
TokenFiles ==
    { ".github/workflows/ci.yml", ".github/workflows/docs.yml",
      ".github/workflows/publish.yml", ".github/workflows/render-paper.yml",
      "README.md", "pyproject.toml", "docs/development/changelog.md",
      "docs/development/contributing.md" }
ProjectNames == TokenFiles \cup OtherFiles

\* What the rendered template puts into a file before the hook runs: tokens
\* only in the files meant to carry them.
RenderedTexts(name) ==
    CASE name = "pyproject.toml" -> { PyprojectRendered }
      [] name = "README.md" -> { ReadmeRendered }
      [] name = "docs/development/changelog.md" -> { ChangelogRendered }
      [] name = "docs/development/contributing.md" -> { TokensAdjacent }
      [] name \in OtherFiles -> { NoTokens }
      [] OTHER -> { WorkflowRendered }

\* the states a file that exists can be in
Rendered(name) ==
    UNION { { TextFile(t), ReadOnly(t) } : t \in RenderedTexts(name) }
    \cup { Unreadable }

\* the project directory in which the files of present exist, as g tells
Directory(present, g) ==
    [n \in ProjectNames |-> IF n \in present THEN g[n] ELSE Absent]

\* The project directories with at most MaxFiles files.
ProjectDirs ==
    UNION { { Directory(present, g) :
                g \in { h \in [present -> UNION { Rendered(n) : n \in present }] :
                          \A n \in present : h[n] \in Rendered(n) } }
            : present \in { p \in SUBSET ProjectNames :
                              Cardinality(p) <= MaxFiles } }

\* A call of setup_python_versions; parse_requires_python is the one of
\* scripts/lib when the import succeeds, the local one otherwise.
SetupPythonVersions ==
    /\ tokens_result = NoTokensResult
    /\ \E default \in {DefaultMinorLib, DefaultMinorHook} :
         LET run == SetupPython(files, python_version, today, default)
         IN  /\ files' = run.files
             /\ tokens_result' = run.result
    /\ UNCHANGED <<python_version, today>>

----------------------------------------------------------------------------
(* main() *)

\* What a step of main() did: a command run_command ran and whether it
\* exited with 0, a message printed, a path removed (rmtree, unlink), an
\* exception that left main().
Event(kind, text, ok) == [kind |-> kind, text |-> text, ok |-> ok]
Command(cmd, ok) == Event("run", cmd, ok)
Printed(msg) == Event("print", msg, TRUE)
Uncaught(exc) == Event("raise", exc, FALSE)

\* run_command with check=True raises CalledProcessError when the command
\* exits with a status other than 0: the commands of a try block run in turn
\* until one fails.  Every way the block can go: the commands run, and whether
\* the block reached its end.
Attempt(cmds, failing) ==
    [log |-> [i \in 1..(IF failing = 0 THEN Len(cmds) ELSE failing) |->
                Command(cmds[i], i /= failing)],
     completed |-> failing = 0]
Attempts(cmds) == { Attempt(cmds, failing) : failing \in 0..Len(cmds) }

\* A path rglob("__remove__*") yields: a file or a directory; inside is the
\* position of the placeholder directory that contains it, 0 if there is
\* none; locked tells that removing it fails with an OSError.
Placeholder(path, kind, inside, locked) ==
    [path |-> path, kind |-> kind, inside |-> inside, locked |-> locked]

PlaceholderLayouts ==
    { <<>>,
      <<Placeholder("__remove__a", "file", 0, FALSE)>>,
      <<Placeholder("__remove__a", "file", 0, TRUE)>>,
      <<Placeholder("__remove__d", "dir", 0, FALSE),
        Placeholder("__remove__d/__remove__x", "file", 1, FALSE)>>,
      <<Placeholder("__remove__a", "file", 0, FALSE),
        Placeholder("docs/__remove__d", "dir", 0, FALSE),
        Placeholder("docs/__remove__d/__remove__e", "dir", 2, FALSE),
        Placeholder("docs/__remove__d/__remove__e/__remove__x", "file", 3,
                    FALSE)>> }

\* the j-th path is below the i-th one
RECURSIVE Within(_, _, _)
Within(paths, j, i) ==
    /\ paths[j].inside /= 0
    /\ \/ paths[j].inside = i
       \/ Within(paths, paths[j].inside, i)

\* lines 333-339: the loop over the paths from the i-th on; gone is the set of
\* positions already removed, log the removals made.  rglob lists a directory
\* after the paths it yielded from it were dealt with, so a path below a
\* removed directory is yielded no more.
RECURSIVE CleanupLoopFilesOnly(_, _, _, _)
CleanupLoopFilesOnly(paths, i, gone, log) ==
    IF i > Len(paths)
    THEN [gone |-> gone, exc |-> "none", log |-> log]
    ELSE IF i \in gone \/ paths[i].kind = "dir"
    THEN CleanupLoopFilesOnly(paths, i + 1, gone, log)
    ELSE IF paths[i].locked
    THEN [gone |-> gone, exc |-> "OSError", log |-> log]
    ELSE CleanupLoopFilesOnly(paths, i + 1, gone \cup {i},
                              Append(log, Event("unlink", paths[i].path, TRUE)))
RECURSIVE CleanupLoop(_, _, _, _)
CleanupLoop(paths, i, gone, log) ==
    IF i > Len(paths)
    THEN [gone |-> gone, exc |-> "none", log |-> log]
    ELSE IF i \in gone THEN CleanupLoop(paths, i + 1, gone, log)
    ELSE IF paths[i].locked
    THEN [gone |-> gone, exc |-> "OSError", log |-> log]
    ELSE IF paths[i].kind = "dir"
    THEN CleanupLoop(paths, i + 1,
                     gone \cup {i}
                     \cup { j \in 1..Len(paths) : Within(paths, j, i) },
                     Append(log, Event("rmtree", paths[i].path, TRUE)))
    ELSE CleanupLoop(paths, i + 1, gone \cup {i},
                     Append(log, Event("unlink", paths[i].path, TRUE)))

\* the paths that are left, in their order
RECURSIVE Remaining(_, _, _)
Remaining(paths, i, gone) ==
    IF i > Len(paths) THEN <<>>
    ELSE (IF i \in gone THEN <<>> ELSE <<paths[i]>>)
         \o Remaining(paths, i + 1, gone)

\* line 327: setup_python_versions(); an exception leaves main()
MainSetupPythonVersions ==
    /\ main_pc = "tokens"
    /\ \E default \in {DefaultMinorLib, DefaultMinorHook} :
         LET run == SetupPython(files, python_version, today, default)
         IN  /\ files' = run.files
             /\ tokens_result' = run.result
             /\ main_pc' = IF run.result.outcome = "raised" THEN "raised"
                           ELSE "cruft"
             /\ main_log' = IF run.result.outcome = "raised"
                            THEN <<Uncaught(run.result.exc)>>
                            ELSE <<>>
    /\ UNCHANGED <<python_version, today, cruft_vars, dpv_vars, tool_vars, placeholders,
                   uv_available>>

\* line 330: setup_cruft_tracking(); an exception leaves main()
MainCruftTrackingSkipped ==
    /\ main_pc = "cruft"
    /\ main_pc' = "cleanup"
    /\ UNCHANGED <<cruft_vars, dpv_vars, tool_vars, tokens_vars, placeholders,
                   uv_available, main_log>>
MainSetupCruftTracking ==
    /\ main_pc = "cruft"
    /\ \E run \in SetupCruft(cruft_file, environ, git_repos) :
         /\ cruft_file' = run.file
         /\ cruft_result' = run.result
         /\ main_pc' = IF run.result.outcome = "raised" THEN "raised"
                       ELSE "cleanup"
         /\ main_log' = IF run.result.outcome = "raised"
                        THEN <<Uncaught(run.result.exc)>>
                        ELSE <<>>
    /\ UNCHANGED <<environ, git_repos, dpv_vars, tool_vars, tokens_vars, placeholders,
                   uv_available>>

\* lines 333-339: the placeholder paths are removed
MainCleanup ==
    /\ main_pc = "cleanup"
    /\ LET run == CleanupLoop(placeholders, 1, {}, <<>>)
       IN  /\ placeholders' = Remaining(placeholders, 1, run.gone)
           /\ main_pc' = IF run.exc = "none" THEN "git_init" ELSE "raised"
           /\ main_log' = IF run.exc = "none" THEN run.log
                          ELSE run.log \o <<Uncaught(run.exc)>>
    /\ UNCHANGED <<cruft_vars, dpv_vars, tool_vars, tokens_vars, uv_available>>

\* lines 341-346
MainGitInit ==
    /\ main_pc = "git_init"
    /\ \E init \in Attempts(<<"git init -b main">>) :
         main_log' = init.log
           \o <<Printed(IF init.completed
                        THEN "[OK] Git repository initialized"
                        ELSE "[WARN] Git initialization failed")>>
    /\ main_pc' = "uv"
    /\ UNCHANGED <<cruft_vars, dpv_vars, tool_vars, tokens_vars, placeholders,
                   uv_available>>

\* lines 348-363: uv is detected, or installed through pipx
MainUvDetectedOnly ==
    /\ main_pc = "uv"
    /\ \E detect \in Attempts(<<"uv --version">>) :
         IF detect.completed
         THEN /\ uv_available' = TRUE
              /\ main_log' = detect.log
                   \o <<Printed("[OK] uv package manager detected")>>
         ELSE \E install \in Attempts(<<"pip install --user pipx",
                                        "pipx install uv">>) :
                /\ uv_available' = FALSE
                /\ main_log' = detect.log
                     \o <<Printed("[INSTALL] Installing uv package manager...")>>
                     \o install.log
                     \o <<Printed(IF install.completed
                                  THEN "[OK] uv installed successfully"
                                  ELSE "[WARN] uv installation failed")>>
    /\ main_pc' = "install"
    /\ UNCHANGED <<cruft_vars, dpv_vars, tool_vars, tokens_vars, placeholders>>
MainUv ==
    /\ main_pc = "uv"
    /\ \E detect \in Attempts(<<"uv --version">>) :
         IF detect.completed
         THEN /\ uv_available' = TRUE
              /\ main_log' = detect.log
                   \o <<Printed("[OK] uv package manager detected")>>
         ELSE \E install \in Attempts(<<"pip install --user pipx",
                                        "pipx install uv">>) :
                /\ uv_available' = install.completed
                /\ main_log' = detect.log
                     \o <<Printed("[INSTALL] Installing uv package manager...")>>
                     \o install.log
                     \o <<Printed(IF install.completed
                                  THEN "[OK] uv installed successfully"
                                  ELSE "[WARN] uv installation failed")>>
    /\ main_pc' = "install"
    /\ UNCHANGED <<cruft_vars, dpv_vars, tool_vars, tokens_vars, placeholders>>

\* lines 365-379: the dependencies and pre-commit are installed
MainInstall ==
    /\ main_pc = "install"
    /\ \E sync \in Attempts(IF uv_available
                            THEN <<"uv sync --all-extras",
                                   "uv tool install pre-commit",
                                   "pre-commit install">>
                            ELSE <<"pip install -e .[dev]",
                                   "pip install pre-commit",
                                   "pre-commit install">>) :
         main_log' =
           <<Printed(IF uv_available
                     THEN "[INSTALL] Syncing dependencies with uv..."
                     ELSE "[INSTALL] Installing dependencies with pip...")>>
           \o sync.log
           \o <<Printed(IF sync.completed
                        THEN "[OK] Pre-commit hooks installed"
                        ELSE "[WARN] Dependency installation failed")>>
    /\ main_pc' = "commit"
    /\ UNCHANGED <<cruft_vars, dpv_vars, tool_vars, tokens_vars, placeholders,
                   uv_available>>

\* lines 381-410: the initial commit and the closing messages.  The commit
\* runs with check=False, so run_command returns whatever its exit status.
MainCommit ==
    /\ main_pc = "commit"
    /\ \E add \in Attempts(<<"git add .">>) :
         IF add.completed
         THEN \E ok \in BOOLEAN :
                main_log' = add.log
                  \o <<Command("git commit -m \"Initial commit from cookiecutter template\"", ok),
                       Printed("[OK] Initial commit created"),
                       Printed("[SUCCESS] Project successfully initialized!")>>
         ELSE main_log' = add.log
                \o <<Printed("[WARN] Initial commit failed"),
                     Printed("[SUCCESS] Project successfully initialized!")>>
    /\ main_pc' = "done"
    /\ UNCHANGED <<cruft_vars, dpv_vars, tool_vars, tokens_vars, placeholders,
                   uv_available>>

----------------------------------------------------------------------------
(* scripts/validate_template.py: check_workflows_raw_wrapping *)

\* the most lines of a workflow file in the model
MaxLines == 2

RawTag == <<"{","%"," ","r","a","w"," ","%","}">>
EndRawTag == <<"{","%"," ","e","n","d","r","a","w"," ","%","}">>
GithubExpression == <<"$","{","{">>

\* lines 37-44: the loop over the lines from the i-th on; errors holds the
\* line numbers reported so far
RECURSIVE RawLoop(_, _, _, _)
RawLoop(lines, i, in_raw, errors) ==
    IF i > Len(lines) THEN errors
    ELSE LET opened == IF Contains(lines[i], RawTag) THEN TRUE ELSE in_raw
             inside == IF Contains(lines[i], EndRawTag) THEN FALSE ELSE opened
         IN  RawLoop(lines, i + 1, inside,
                     IF Contains(lines[i], GithubExpression) /\ ~inside
                     THEN Append(errors, i)
                     ELSE errors)

\* an error of the list: the file (its position in _workflow_files()) and
\* the line number
RawError(file, lineno) == [file |-> file, lineno |-> lineno]

\* lines 34-45: the loop over the workflow files from the f-th on; in_raw
\* starts as False in every file
RECURSIVE check_workflows_raw_wrapping(_, _)
check_workflows_raw_wrapping(ymls, f) ==
    IF f > Len(ymls) THEN <<>>
    ELSE LET linenos == RawLoop(SplitLines(ymls[f]), 1, FALSE, <<>>)
         IN  [k \in 1..Len(linenos) |-> RawError(f, linenos[k])]
             \o check_workflows_raw_wrapping(ymls, f + 1)

\* What the call returned; NotChecked before it.
Checked(errors) == [checked |-> TRUE, errors |-> errors]
NotChecked == [checked |-> FALSE, errors |-> <<>>]

\* Lines of the template's workflow files.
WorkflowLines ==
    { <<"j","o","b","s",":">>,
      <<"{","%"," ","r","a","w"," ","%","}">>,
      <<"{","%"," ","e","n","d","r","a","w"," ","%","}">>,
      <<" "," ","r","e","f",":"," ","$","{","{"," ","g","i","t","h","u","b",".","r",
       "e","f"," ","}","}">>,
      <<" "," ","r","e","f",":"," ","{","%"," ","r","a","w"," ","%","}","$","{","{",
       " ","g","i","t","h","u","b",".","r","e","f"," ","}","}","{","%"," ",
       "e","n","d","r","a","w"," ","%","}">>,
      <<" "," ","r","e","f",":"," ","$","{","{"," ","g","i","t","h","u","b",".","r",
       "e","f"," ","}","}","{","%"," ","e","n","d","r","a","w"," ","%","}">>,
      <<" "," ","r","e","f",":"," ","{","%"," ","r","a","w"," ","%","}","$","{","{",
       " ","g","i","t","h","u","b",".","r","e","f"," ","}","}">>,
      <<" "," ","r","e","f",":"," ","$","{","{"," ","g","i","t","h","u","b",".","r",
       "e","f"," ","}","}"," ","#"," ","{","%"," ","r","a","w"," ","%","}">>,
      <<" "," ","r","e","f",":"," ","{","%"," ","e","n","d","r","a","w"," ","%","}",
       "$","{","{"," ","g","i","t","h","u","b",".","r","e","f"," ","}","}",
       "{","%"," ","r","a","w"," ","%","}">>,
      <<" "," ","i","f",":"," ","{","%"," ","r","a","w"," ","%","}","$","{","{"," ",
       "a"," ","}","}","{","%"," ","e","n","d","r","a","w"," ","%","}"," ",
       "&","&"," ","$","{","{"," ","b"," ","}","}">> }

\* a file of the lines, each ended by a newline
WorkflowText(lines) ==
    IF lines = <<>> THEN <<>> ELSE Join(lines, <<"\n">>) \o <<"\n">>

WorkflowTexts ==
    { WorkflowText(lines) : lines \in ListsUpTo(WorkflowLines, MaxLines) }

\* a workflow file sorted before the one looked at: one that ends inside a
\* raw block, one that ends outside
EarlierWorkflows ==
    { WorkflowText(<< <<"{","%"," ","r","a","w"," ","%","}">>, <<" "," ","r","e","f",":"," ","$","{","{"," ","g","i","t","h","u","b",".","r",
       "e","f"," ","}","}">> >>),
      WorkflowText(<< <<"j","o","b","s",":">> >>) }

\* the workflow files of the template, in the order of _workflow_files()
WorkflowSets ==
    { <<text>> : text \in WorkflowTexts }
    \cup { <<earlier, text>> : earlier \in EarlierWorkflows,
                              text \in WorkflowTexts }

\* A call of check_workflows_raw_wrapping.
CheckWorkflowsRawWrapping ==
    /\ ~raw_errors.checked
    /\ raw_errors' = Checked(check_workflows_raw_wrapping(workflows, 1))
    /\ UNCHANGED workflows

----------------------------------------------------------------------------
(* scripts/lib/python_versions.py: parse_requires_python *)

\* Minors of the bounds of a specifier.
Minors == { 0, 8, 9, 10, 12, 13, 14 }

\* ">=3.M" and "<3.N" as they are written in a specifier
LowerBound(m, space) ==
    <<">","=">> \o (IF space THEN <<" ">> ELSE <<>>) \o <<"3",".">> \o IntToStr(m)
UpperBound(n, space) ==
    <<"<">> \o (IF space THEN <<" ">> ELSE <<>>) \o <<"3",".">> \o IntToStr(n)

\* A specifier with the lower bound 3.m and the upper bound 3.n: the bounds
\* in either order, with or without blanks.
Bounded(m, n, space, upper_first) ==
    LET sep == IF space THEN <<","," ">> ELSE <<",">>
    IN  IF upper_first
        THEN UpperBound(n, space) \o sep \o LowerBound(m, space)
        ELSE LowerBound(m, space) \o sep \o UpperBound(n, space)

\* The specifiers given to the parser: a lower bound alone, both bounds, and
\* specifiers of other forms.
RequiresSpecs ==
    { LowerBound(m, space) : m \in Minors, space \in BOOLEAN }
    \cup { LowerBound(m, FALSE) \o <<".","2">> : m \in Minors }
    \cup { Bounded(m, n, space, upper_first) :
              m \in Minors, n \in Minors, space \in BOOLEAN,
              upper_first \in BOOLEAN }
    \cup { <<"~","=","3",".","1","0">>, <<"=","=","3",".","1","1",".","*">>, <<">","3",".","1","0",",","<","=","3",".","1","2">>, <<">","=","3",".","1","0",",","<","4",".","0">>,
            <<"<","3",".","1","3">>, <<">","=","2",".","7">>, <<>> }

\* What the call returned; NotParsed before it.
MinMax(lo, hi) == [parsed |-> TRUE, lo |-> lo, hi |-> hi]
NotParsed == [parsed |-> FALSE, lo |-> <<>>, hi |-> <<>>]

\* A call of parse_requires_python of scripts/lib/python_versions.py.
ParseRequiresPython ==
    /\ ~min_max.parsed
    /\ LET got == parse_requires_python(requires_spec, DefaultMinorLib)
       IN  min_max' = MinMax(got.lo, got.hi)
    /\ UNCHANGED requires_spec

----------------------------------------------------------------------------
(* get_unique_minors on its own *)

\* the longest list given to get_unique_minors
MaxVersions == 3

\* versions as normalize_version lets them through
StableVersions ==
    { <<"3",".","9",".","1","8">>, <<"3",".","1","0",".","4">>, <<"3",".","1","0",".","1","2">>, <<"3",".","9",".","1">>, <<"2",".","7",".","1","8">>, <<"3",".","0","9",".","5">>,
      <<"1","0",".","0",".","0">> }

Returned(minors) == [called |-> TRUE, minors |-> minors]
NotCalled == [called |-> FALSE, minors |-> <<>>]

\* A call of get_unique_minors.
GetUniqueMinors ==
    /\ ~unique_minors.called
    /\ unique_minors' = Returned(get_unique_minors(versions_given))
    /\ UNCHANGED versions_given

----------------------------------------------------------------------------
(* scripts/bump_python.py *)

\* the most arguments after the script's name
MaxArgs == 3

ToFlag == <<"-","-","t","o">>

\* sys.argv: the script's name and the arguments
Args ==
    { ToFlag, <<"3",".","1","2">>, <<"3",".","1","1">>, <<"3">>, <<"3",".","1","2",".","1">>, <<"v","3",".","1","2">>, <<"-","n">> }
Argvs == { <<<<"b","u","m","p","_","p","y","t","h","o","n",".","p","y">>>> \o a : a \in ListsUpTo(Args, MaxArgs) }

\* list.index(x) of a list that holds x: the 0-based index of the first
Index(list, x) ==
    (CHOOSE i \in 1..Len(list) :
        list[i] = x /\ \A k \in 1..(i - 1) : list[k] /= x) - 1

\* re.fullmatch(r"\d+\.\d+", to)
FullMatchVersion(to) ==
    LET dot == SkipDigits(to, 1)
    IN  /\ dot > 1
        /\ dot <= Len(to)
        /\ to[dot] = "."
        /\ SkipDigits(to, dot + 1) > dot + 1
        /\ SkipDigits(to, dot + 1) = Len(to) + 1

\* a match of  >=? \s* 3 \. \d+  that starts at the i-th character of s: the
\* index after it, 0 when there is no match there
LowerBoundEnd(s, i) ==
    IF s[i] /= ">" THEN 0
    ELSE LET j == IF i + 1 <= Len(s) /\ s[i + 1] = "=" THEN i + 2 ELSE i + 1
             k == SkipWhitespace(s, j)
         IN  IF k + 1 <= Len(s) /\ s[k] = "3" /\ s[k + 1] = "."
                /\ SkipDigits(s, k + 2) > k + 2
             THEN SkipDigits(s, k + 2)
             ELSE 0

\* re.sub(r">=?\s*3\.\d+", repl, s) from the i-th character on
RECURSIVE SubLowerBound(_, _, _)
SubLowerBound(s, i, repl) ==
    IF i > Len(s) THEN <<>>
    ELSE IF LowerBoundEnd(s, i) /= 0
    THEN repl \o SubLowerBound(s, LowerBoundEnd(s, i), repl)
    ELSE <<s[i]>> \o SubLowerBound(s, i + 1, repl)

\* line 34: the new value of requires-python
NewRequires(old, to) ==
    IF Contains(old, <<">","=">>) THEN SubLowerBound(old, 1, <<">","=">> \o to)
    ELSE <<">","=">> \o to

\* pyproject.toml: missing, not TOML, or a document; of a document, whether
\* it has a [project] table and what requires-python holds in it.
NoValue == [t |-> "absent"]
NoPyproject == [kind |-> "missing", project |-> FALSE, requires |-> NoValue]
BadPyproject == [kind |-> "invalid", project |-> FALSE, requires |-> NoValue]
Pyproject(project, requires) ==
    [kind |-> "doc", project |-> project, requires |-> requires]

DefaultRequires == <<">","=","3",".","1","0">>

\* How the script ended: a sys.exit with a message, an exception, or the
\* update; to and old are the local variables, read and wrote tell whether
\* read_text and write_text of pyproject.toml were called.
BumpResult(exit, message, to, old, read, wrote) ==
    [exit |-> exit, message |-> message, to |-> to, old |-> old,
     read |-> read, wrote |-> wrote]
NotBumped == BumpResult("not_run", <<>>, <<>>, <<>>, FALSE, FALSE)
SysExit(exit, message) == BumpResult(exit, message, <<>>, <<>>, FALSE, FALSE)

Usage == <<"U","s","a","g","e",":"," ","b","u","m","p","_","p","y","t","h","o","n",".",
       "p","y"," ","-","-","t","o"," ","M","A","J","O","R",".","M","I","N",
       "O","R"," ","(","e",".","g","."," ","3",".","1","2",")">>

\* lines 29-38: pyproject.toml is read, changed and written
Rewrite(file, to, writable) ==
    IF file.kind = "missing"
    THEN [file |-> file,
          result |-> BumpResult("raised", <<"F","i","l","e","N","o","t","F","o","u","n","d","E","r","r","o","r">>, to, <<>>,
                                TRUE, FALSE)]
    ELSE IF file.kind = "invalid"
    THEN [file |-> file,
          result |-> BumpResult("raised", <<"T","O","M","L","D","e","c","o","d","e","E","r","r","o","r">>, to, <<>>,
                                TRUE, FALSE)]
    ELSE LET old == IF file.project /\ file.requires.t /= "absent"
                    THEN file.requires
                    ELSE Str(DefaultRequires)
         IN  IF old.t /= "str"
             THEN [file |-> file,
                   result |-> BumpResult("raised", <<"T","y","p","e","E","r","r","o","r">>, to, <<>>,
                                         TRUE, FALSE)]
             ELSE IF ~writable
             THEN [file |-> file,
                   result |-> BumpResult("raised", <<"O","S","E","r","r","o","r">>, to, old.v,
                                         TRUE, TRUE)]
             ELSE [file |-> Pyproject(TRUE, Str(NewRequires(old.v, to))),
                   result |-> BumpResult("updated", <<>>, to, old.v,
                                         TRUE, TRUE)]

\* main() of bump_python.py; writable tells whether write_text succeeds
BumpMainReadsFirst(args, file, writable) ==
    IF \A i \in 1..Len(args) : args[i] /= ToFlag
    THEN [file |-> file, result |-> SysExit("usage", Usage)]
    ELSE IF Index(args, ToFlag) + 1 >= Len(args)
    THEN [file |-> file,
          result |-> SysExit("no_value",
                             <<"E","r","r","o","r",":"," ","-","-","t","o"," ","r","e","q","u","i","r","e",
       "s"," ","a"," ","v","a","l","u","e",".","\n">> \o Usage)]
    ELSE LET to == args[Index(args, ToFlag) + 2]
         IN  IF ~FullMatchVersion(to)
             THEN [file |-> file,
                   result |-> BumpResult("invalid",
                       <<"E","r","r","o","r",":"," ","i","n","v","a","l","i","d"," ","P","y","t","h",
       "o","n"," ","v","e","r","s","i","o","n"," ","'">> \o to
                       \o <<"'","."," ","E","x","p","e","c","t","e","d"," ","M","A","J","O","R",".","M",
       "I","N","O","R"," ","l","i","k","e"," ","3",".","1","2">>,
                       <<>>, <<>>, TRUE, FALSE)]
             ELSE Rewrite(file, to, writable)
BumpMain(args, file, writable) ==
    IF \A i \in 1..Len(args) : args[i] /= ToFlag
    THEN [file |-> file, result |-> SysExit("usage", Usage)]
    ELSE IF Index(args, ToFlag) + 1 >= Len(args)
    THEN [file |-> file,
          result |-> SysExit("no_value",
                             <<"E","r","r","o","r",":"," ","-","-","t","o"," ","r","e","q","u","i","r","e",
       "s"," ","a"," ","v","a","l","u","e",".","\n">> \o Usage)]
    ELSE LET to == args[Index(args, ToFlag) + 2]
         IN  IF ~FullMatchVersion(to)
             THEN [file |-> file,
                   result |-> SysExit("invalid",
                       <<"E","r","r","o","r",":"," ","i","n","v","a","l","i","d"," ","P","y","t","h",
       "o","n"," ","v","e","r","s","i","o","n"," ","'">> \o to
                       \o <<"'","."," ","E","x","p","e","c","t","e","d"," ","M","A","J","O","R",".","M",
       "I","N","O","R"," ","l","i","k","e"," ","3",".","1","2">>)]
             ELSE Rewrite(file, to, writable)

\* the values of requires-python before the run
RequiresValues ==
    { NoValue, Num(3), Str(<<">","=","3",".","1","0">>), Str(<<">","=","3",".","1","0",",","<","3",".","1","3">>),
      Str(<<">","="," ","3",".","9",","," ","<"," ","3",".","1","4">>), Str(<<">","=","2",".","7">>), Str(<<"<","3",".","1","3">>),
      Str(<<">","3",".","9",",","<","3",".","1","3">>), Str(<<"~","=","3",".","1","0">>), Str(<<">","=","3",".","1","0",".","2">>) }

Pyprojects ==
    { NoPyproject, BadPyproject, Pyproject(FALSE, NoValue) }
    \cup { Pyproject(TRUE, r) : r \in RequiresValues }

\* a run of the script
BumpPython ==
    /\ bump_result.exit = "not_run"
    /\ \E writable \in BOOLEAN :
         LET run == BumpMain(argv, pyproject, writable)
         IN  /\ pyproject' = run.file
             /\ bump_result' = run.result
    /\ UNCHANGED argv

----------------------------------------------------------------------------
(* The template's optional files: conditional file names and the cleanup of
   main() *)

AiAgents == {"none", "claude_code", "openai_codex", "roo_code", "all"}
ProjectTypes == {"standard", "paper"}
Options == [ai_agents : AiAgents, project_type : ProjectTypes]
NoOptions == [ai_agents |-> "none", project_type |-> "standard"]

\* the agents an ai_agents choice selects
Agents == {"claude_code", "openai_codex", "roo_code"}
AgentsOfAllButCodex(ai_agents) ==
    IF ai_agents = "all" THEN {"claude_code", "roo_code"}
    ELSE Agents \cap {ai_agents}
AgentsOf(ai_agents) ==
    IF ai_agents = "all" THEN Agents ELSE Agents \cap {ai_agents}

\* the instruction file of an agent
AgentFile(agent) ==
    CASE agent = "claude_code" -> "CLAUDE.md"
      [] agent = "openai_codex" -> "AGENTS.md"
      [] agent = "roo_code" -> ".roo/rules-code/rules.md"

PaperFiles ==
    { "paper/paper.qmd", "paper/references.bib",
      ".github/workflows/render-paper.yml" }

OptionalPaths ==
    { AgentFile(a) : a \in Agents } \cup PaperFiles \cup {"pyproject.toml"}

\* pyproject.toml as the template renders it: the paper dependency group is
\* inside a condition on project_type
PaperGroup == <<"p","a","p","e","r"," ","="," ","[","\n"," "," "," "," ","\"","m","a","r",
       "i","m","o","\"",",","\n","]","\n">>
RenderPyprojectWithPaper(project_type) ==
    <<"[","p","r","o","j","e","c","t","]","\n","n","a","m","e"," ","="," ","\"",
       "m","y","-","a","m","a","z","i","n","g","-","l","i","b","r","a","r",
       "y","\"","\n","[","d","e","p","e","n","d","e","n","c","y","-","g",
       "r","o","u","p","s","]","\n">>
    \o PaperGroup
RenderPyproject(project_type) ==
    <<"[","p","r","o","j","e","c","t","]","\n","n","a","m","e"," ","="," ","\"",
       "m","y","-","a","m","a","z","i","n","g","-","l","i","b","r","a","r",
       "y","\"","\n","[","d","e","p","e","n","d","e","n","c","y","-","g",
       "r","o","u","p","s","]","\n">>
    \o (IF project_type = "paper" THEN PaperGroup ELSE <<>>)

\* The files the rendering leaves under their own names: an optional file
\* has its name only when its option is chosen.
RenderTree(opts) ==
    [p \in OptionalPaths |->
       IF p = "pyproject.toml"
       THEN TextFile(RenderPyproject(opts.project_type))
       ELSE IF p \in PaperFiles
       THEN (IF opts.project_type = "paper" THEN TextFile(<<"p","a","p","e","r","\n">>)
             ELSE Absent)
       ELSE IF \E a \in AgentsOf(opts.ai_agents) : AgentFile(a) = p
       THEN TextFile(<<"#"," ","P","r","o","j","e","c","t"," ","I","n","s","t","r","u","c","t","i",
       "o","n","s","\n">>)
       ELSE Absent]

\* The optional files whose option is not chosen are rendered under a name
\* that starts with __remove__.
ConditionalNames(opts) ==
    <<[path |-> "__remove__CLAUDE.md", kind |-> "file",
       chosen |-> "claude_code" \in AgentsOf(opts.ai_agents)],
      [path |-> "__remove__AGENTS.md", kind |-> "file",
       chosen |-> "openai_codex" \in AgentsOf(opts.ai_agents)],
      [path |-> ".roo/rules-code/__remove__rules.md", kind |-> "file",
       chosen |-> "roo_code" \in AgentsOf(opts.ai_agents)],
      [path |-> "__remove__paper", kind |-> "dir",
       chosen |-> opts.project_type = "paper"],
      [path |-> ".github/workflows/__remove__render-paper.yml",
       kind |-> "file", chosen |-> opts.project_type = "paper"]>>

NotChosen(entry) == ~entry.chosen

RenderPlaceholders(opts, locked) ==
    LET left == SelectSeq(ConditionalNames(opts), NotChosen)
    IN  [i \in 1..Len(left) |->
           Placeholder(left[i].path, left[i].kind, 0, i \in locked)]

NotGenerated == [p \in OptionalPaths |-> Absent]

\* cookiecutter renders the template into the project directory and runs the
\* hook; the model takes main() up at its cleanup loop (the steps before it
\* work on none of the optional files' existence).
RenderTemplate ==
    /\ main_pc = "idle"
    /\ tree = NotGenerated
    /\ tree' = RenderTree(options)
    /\ \E locked \in SUBSET (1..Len(ConditionalNames(options))) :
         placeholders' = RenderPlaceholders(options, locked)
    /\ main_pc' = "cleanup"
    /\ UNCHANGED <<options, main_log, uv_available, cruft_vars, dpv_vars,
                   tokens_vars, validate_vars, parse_vars, bump_vars,
                   minors_vars>>

----------------------------------------------------------------------------
(* Commit resolution: properties *)

CommitField == DictGet(cruft_file.data, "commit", PyNone)
TemplateField == DictGet(cruft_file.data, "template", Str(<<>>))
ValidEnv(name) == environ[name].t = "str" /\ IsSha(environ[name].v)

\* C1: after a call of setup_cruft_tracking that found a JSON object in
\* .cruft.json and stored a commit in it, the 'commit' field is a string of
\* exactly 40 lowercase hexadecimal characters, whichever strategy supplied
\* it and whatever the git commands printed.
C1_CommitIsFullSha ==
    cruft_result.outcome = "written"
        => CommitField.t = "str" /\ IsSha(CommitField.v)

\* .cruft.json is an object whose 'commit' holds a value (not null, not empty)
HasCommit(file) ==
    /\ file.kind = "json" /\ file.data.t = "obj"
    /\ "commit" \in DOMAIN file.data.v
    /\ Truthy(file.data.v["commit"])

\* C2: once the 'commit' field of .cruft.json is set, no step (a call of
\* setup_cruft_tracking in any environment and git state) changes the file;
\* and a call that writes the file leaves 'commit' set, so every later call
\* leaves the file as the first one left it.
C2_CommitNeverOverwritten ==
    [][ /\ HasCommit(cruft_file) => cruft_file' = cruft_file
        /\ cruft_result'.outcome = "written" => HasCommit(cruft_file') ]_vars

\* a second call, in an environment that offers another commit, found the
\* commit an earlier call wrote and left it alone
C2_Witness ==
    /\ cruft_result.outcome = "already"
    /\ cruft_file.fmt = "indent4"
    /\ ValidEnv("COOKIECUTTER_TEMPLATE_COMMIT")
    /\ CommitField /= environ["COOKIECUTTER_TEMPLATE_COMMIT"]

\* C3: setup_cruft_tracking never raises, whatever .cruft.json holds and
\* however the git commands end.
C3_NeverRaises == cruft_result.outcome /= "raised"

StrategyRank(s) ==
    CASE s = "env" -> 1
      [] s = "template_path" -> 2
      [] s = "ls_remote" -> 3
      [] s = "probe" -> 4
      [] s = "synthetic" -> 5

\* the text before the first whitespace
UpToWhitespace(s) == Take(s, FindChar(s, Whitespace, 1) - 1)

\* what the strategy that resolved the commit yielded
Yielded(strategy, calls) ==
    CASE strategy = "env" ->
           IF ValidEnv("COOKIECUTTER_TEMPLATE_COMMIT")
           THEN environ["COOKIECUTTER_TEMPLATE_COMMIT"]
           ELSE environ["GITHUB_SHA"]
      [] strategy \in {"template_path", "probe"} -> calls[Len(calls)].value
      [] strategy = "ls_remote" -> Str(UpToWhitespace(calls[Len(calls)].value.v))
      [] strategy = "synthetic" -> CommitField

\* the strategy applies in the environment of the call: its git command runs
\* if the strategies before it yielded nothing
Applies(strategy, at) ==
    CASE strategy = "template_path" ->
           TemplateField.t = "str" /\ TemplateField.v /= <<>>
           /\ git_repos.template
      [] strategy = "ls_remote" -> IsRemote(TemplateField)
      [] strategy = "probe" ->
           /\ at \in git_repos.probes
           /\ \E i \in 1..Len(Probes(TemplateField)) :
                Probes(TemplateField)[i] = at

\* the places a strategy runs its git command in
Places(strategy) == IF strategy = "probe" THEN ProbePaths ELSE {AtTemplate}

\* C4: the strategies run in the order environment, template path, ls-remote,
\* probes, synthetic hash; the commit is what the first one that yields a value
\* yielded; no git command runs after a value was yielded; and every strategy
\* that applies and precedes the resolving one was run.
C4_FirstStrategyWins ==
    cruft_result.strategy /= "none" =>
      LET calls == cruft_result.calls
          s == cruft_result.strategy
          n == Len(calls)
      IN  /\ \A i, j \in 1..n :
                i < j => StrategyRank(calls[i].strategy)
                           <= StrategyRank(calls[j].strategy)
          /\ \A i \in 1..n : StrategyRank(calls[i].strategy) <= StrategyRank(s)
          /\ \A i \in 1..(n - 1) : ~Truthy(calls[i].value)
          /\ (s = "env") <=>
                (ValidEnv("COOKIECUTTER_TEMPLATE_COMMIT") \/ ValidEnv("GITHUB_SHA"))
          /\ s = "env" => n = 0
          /\ s \in {"template_path", "ls_remote", "probe"} =>
                n > 0 /\ calls[n].strategy = s /\ Truthy(calls[n].value)
          /\ s = "synthetic" => \A i \in 1..n : ~Truthy(calls[i].value)
          /\ \A t \in {"template_path", "ls_remote", "probe"} :
               \A at \in Places(t) :
                 (\E i \in 1..n : calls[i].strategy = t /\ calls[i].at = at)
                    => Applies(t, at)
          /\ \A t \in {"template_path", "ls_remote", "probe"} :
               \A at \in Places(t) :
                 (StrategyRank(t) < StrategyRank(s) /\ Applies(t, at))
                    => \E i \in 1..n : calls[i].strategy = t /\ calls[i].at = at
          /\ cruft_result.outcome = "written" => CommitField = Yielded(s, calls)

\* the template path and ls-remote yielded nothing, and a probe supplied the
\* commit that was written
C4_Witness ==
    /\ cruft_result.outcome = "written"
    /\ cruft_result.strategy = "probe"
    /\ Len(cruft_result.calls) >= 3
    /\ CommitField = Str(ShaProbe)

\* C5: when no strategy yields a commit, the commit written is the SHA-1 of
\* the template string, or of "pythonic-template" when the template is empty
\* or not a string: a function of the template alone.
C5_SyntheticHashOfTemplate ==
    (cruft_result.outcome = "written" /\ cruft_result.strategy = "synthetic")
        => CommitField =
             Str(Sha1Hex(IF TemplateField.t = "str" /\ TemplateField.v /= <<>>
                         THEN TemplateField.v
                         ELSE TemplateDefault))

\* the synthetic hash of a remote template was written after ls-remote failed
C5_Witness ==
    /\ cruft_result.outcome = "written"
    /\ cruft_result.strategy = "synthetic"
    /\ TemplateField = Str(TemplateGithub)
    /\ cruft_result.calls /= <<>>
    /\ CommitField = Str(Sha1Hex(TemplateGithub))


\* the keys of .cruft.json, when it holds an object
Keys(file) ==
    IF file.kind = "json" /\ file.data.t = "obj" THEN DOMAIN file.data.v ELSE {}

\* C12: a call of setup_cruft_tracking changes nothing of .cruft.json but
\* the 'commit' field: the file holds an object before and after, with the
\* keys it had and 'commit', and 'template', 'context' and every other key
\* hold the values they held, also when a local probe supplied the commit.
C12_OnlyCommitChanges ==
    [][ cruft_file' /= cruft_file =>
          /\ cruft_file.kind = "json" /\ cruft_file.data.t = "obj"
          /\ cruft_file'.kind = "json" /\ cruft_file'.data.t = "obj"
          /\ Keys(cruft_file') = Keys(cruft_file) \cup {"commit"}
          /\ \A k \in Keys(cruft_file) \ {"commit"} :
               cruft_file'.data.v[k] = cruft_file.data.v[k] ]_vars

\* a probe of ~/t supplied the commit of a GitHub template, and the file
\* holds the template and the context it held
C12_Witness ==
    /\ cruft_result.outcome = "written"
    /\ cruft_result.strategy = "probe"
    /\ cruft_result.calls[Len(cruft_result.calls)].at = ProbePath("home", <<"t">>)
    /\ TemplateField = Str(TemplateGithub)
    /\ DictGet(cruft_file.data, "context", PyNone) = Context
    /\ CommitField = Str(ShaProbe)

\* C13: when .cruft.json is missing, unreadable or not valid JSON, a call of
\* setup_cruft_tracking creates no file and leaves .cruft.json exactly as it
\* was.
C13_FailureLeavesFile ==
    [][ cruft_file.kind \in {"missing", "unreadable", "notutf8", "badjson"}
          => cruft_file' = cruft_file ]_vars

\* a call found text that is not JSON, logged the failure and returned
C13_Witness ==
    /\ cruft_result.outcome = "failed"
    /\ cruft_result.exc = "JSONDecodeError"
    /\ cruft_file = FileBadJson

\* the value of the environment variable is 40 characters, each of 0-9 or a-f
LowerHex40(name) ==
    /\ environ[name].t = "str"
    /\ Len(environ[name].v) = 40
    /\ \A i \in 1..Len(environ[name].v) :
         environ[name].v[i] \in
           {"0", "1", "2", "3", "4", "5", "6", "7", "8", "9",
            "a", "b", "c", "d", "e", "f"}

\* .cruft.json is an object without a commit: the call resolves one
Resolving(file) ==
    file.kind = "json" /\ file.data.t = "obj" /\ ~HasCommit(file)

\* C21: a call that resolves the commit takes it from the environment exactly
\* when COOKIECUTTER_TEMPLATE_COMMIT or GITHUB_SHA holds 40 lowercase
\* hexadecimal characters: the value of COOKIECUTTER_TEMPLATE_COMMIT when that
\* one is valid, else the value of GITHUB_SHA; and then no git command runs.
C21_EnvCommitOnlyWhenValid ==
    [][ (cruft_result'.outcome /= "none" /\ Resolving(cruft_file)) =>
          LET ctc == LowerHex40("COOKIECUTTER_TEMPLATE_COMMIT")
              sha == LowerHex40("GITHUB_SHA")
              commit == DictGet(cruft_file'.data, "commit", PyNone)
          IN  /\ cruft_result'.strategy = "env" <=> (ctc \/ sha)
              /\ (ctc \/ sha) =>
                   /\ cruft_result'.calls = <<>>
                   /\ cruft_result'.outcome \in {"written", "failed"}
              /\ (cruft_result'.outcome = "written" /\ ctc) =>
                   commit = environ["COOKIECUTTER_TEMPLATE_COMMIT"]
              /\ (cruft_result'.outcome = "written" /\ ~ctc /\ sha) =>
                   commit = environ["GITHUB_SHA"] ]_vars

\* GITHUB_SHA used because COOKIECUTTER_TEMPLATE_COMMIT is upper case, with a
\* checkout of the template at hand and no git command run in it
C21_Witness ==
    /\ cruft_result.outcome = "written"
    /\ cruft_result.strategy = "env"
    /\ cruft_result.calls = <<>>
    /\ Truthy(environ["COOKIECUTTER_TEMPLATE_COMMIT"])
    /\ ~LowerHex40("COOKIECUTTER_TEMPLATE_COMMIT")
    /\ CommitField = Str(ShaEnvB)
    /\ git_repos.template

----------------------------------------------------------------------------
(* Version discovery: properties *)

\* the query ended with a list that is not empty
NonEmptyList(got) == got.outcome = "versions" /\ Len(got.versions) > 0

\* C6: discover_python_versions queries uv, pyenv, endoflife.date in that
\* order; it returns what the first source with a non-empty list yielded and
\* queries no source after it; it returns ["3.12", "3.13", "3.14"] exactly
\* when all three sources failed or yielded nothing.
C6_SourcesInOrder ==
    dpv.returned =>
      LET q == dpv.queried
          n == Len(q)
          order == <<"uv", "pyenv", "endoflife.date">>
      IN  /\ n \in 1..3
          /\ \A i \in 1..n : q[i].method = order[i]
          /\ \A i \in 1..(n - 1) : ~NonEmptyList(q[i].got)
          /\ dpv.via /= "fallback" =>
               /\ q[n].method = dpv.via
               /\ NonEmptyList(q[n].got)
               /\ dpv.versions = q[n].got.versions
          /\ (dpv.via = "fallback") <=>
               (n = 3 /\ \A i \in 1..3 : ~NonEmptyList(q[i].got))
          /\ dpv.via = "fallback" =>
               dpv.versions = << <<"3",".","1","2">>, <<"3",".","1","3">>, <<"3",".","1","4">> >>

\* uv raised, pyenv yielded nothing, and endoflife.date supplied the versions
C6_Witness ==
    /\ dpv.returned
    /\ dpv.via = "endoflife.date"
    /\ dpv.queried[1].got = Raised
    /\ dpv.queried[2].got = Nothing
    /\ dpv.versions /= <<>>

\* the (major, minor) of an "X.Y" string is below that of another
MinorBelow(a, b) ==
    LET pa == SplitOn(a, ".")
        pb == SplitOn(b, ".")
    IN  \/ ToInt(pa[1]) < ToInt(pb[1])
        \/ ToInt(pa[1]) = ToInt(pb[1]) /\ ToInt(pa[2]) < ToInt(pb[2])

\* C7: discover_python_versions returns, whatever the sources print (an
\* exception of a source is caught and the next source is queried), a
\* non-empty list of "X.Y" strings in strictly ascending numeric order of
\* (major, minor), hence without duplicates.
C7_NonEmptySortedMinors ==
    /\ dpv.returned =>
         /\ Len(dpv.versions) > 0
         /\ \A i \in 1..Len(dpv.versions) :
              /\ dpv.versions[i] \in Seq(Digits \cup {"."})
              /\ \E k \in 2..(Len(dpv.versions[i]) - 1) :
                   /\ dpv.versions[i][k] = "."
                   /\ \A j \in 1..Len(dpv.versions[i]) :
                        j /= k => dpv.versions[i][j] \in Digits
         /\ \A i \in 1..(Len(dpv.versions) - 1) :
              MinorBelow(dpv.versions[i], dpv.versions[i + 1])
    /\ \A i \in 1..Len(dpv.queried) :
         dpv.queried[i].got.outcome = "raised" =>
           \/ i < Len(dpv.queried)
           \/ dpv.returned /\ dpv.via = "fallback"

\* uv listed 3.10.4 before 3.9.18, and the call returned 3.9 before 3.10
C7_Witness ==
    /\ dpv.returned
    /\ dpv.via = "uv"
    /\ dpv.output.doc.value.v[1] = UvEntry(Str(<<"c","p","y","t","h","o","n">>), Str(<<"3",".","1","0",".","4">>))
    /\ dpv.versions = << <<"3",".","9">>, <<"3",".","1","0">> >>

----------------------------------------------------------------------------
(* Token substitution: properties *)

PlaceholderTokens ==
    { <<"_","_","P","Y","_","M","I","N","_","_">>, <<"_","_","P","Y","_","M","A","T","R","I","X","_","_">>, <<"_","_","P","Y","_","M","A","X","_","_">>, <<"_","_","P","Y","_","S","H","O","R","T","_","_">>,
      <<"_","_","P","Y","_","C","L","A","S","S","I","F","I","E","R","S","_","_">>, <<"_","_","R","E","L","E","A","S","E","_","D","A","T","E","_","_">> }

\* C8: for python_version 3.12, 3.13 and 3.14, once setup_python_versions has
\* completed, no file of the generated project contains any of the six
\* placeholder tokens.
C8_NoTokenLeft ==
    tokens_result.outcome = "completed" =>
      \A name \in ProjectNames : \A token \in PlaceholderTokens :
        ~Contains(files[name].text, token)

\* the changelog and a workflow carried tokens, and the call replaced them
C8_Witness ==
    /\ tokens_result.outcome = "completed"
    /\ files["docs/development/changelog.md"]
         = TextFile(<<"#","#"," ","[","0",".","1",".","0","]"," ","-"," ">> \o today)
    /\ files[".github/workflows/ci.yml"].kind = "text"

\* "3.N" without its dot
Undotted(version) == <<version[1]>> \o SubSeq(version, 3, Len(version))

\* what pyproject.toml reads for the version
RequiresPythonLine(version) ==
    <<"r","e","q","u","i","r","e","s","-","p","y","t","h","o","n"," ","="," ",
       "\"",">","=">> \o version \o <<"\"","\n">>
TargetVersionLine(short) ==
    <<"t","a","r","g","e","t","-","v","e","r","s","i","o","n"," ","="," ","\"",
       "p","y">> \o short \o <<"\"","\n">>
ClassifierLines(version) ==
    <<"[","\n"," "," "," "," ","\"","P","r","o","g","r","a","m","m","i","n","g",
       " ","L","a","n","g","u","a","g","e"," ",":",":"," ","P","y","t","h",
       "o","n"," ",":",":"," ">> \o version \o <<"\"",",","\n","]">>

\* C9: for python_version "3.N", once setup_python_versions has completed, a
\* writable pyproject.toml reads 'requires-python = ">=3.N"' where it read
\* '>=__PY_MIN__', 'target-version = "py3N"' where it read 'py__PY_SHORT__',
\* and holds the classifier "Programming Language :: Python :: 3.N" where it
\* read __PY_CLASSIFIERS__.
C9_TokensOfVersion ==
    (tokens_result.outcome = "completed" /\ files["pyproject.toml"].kind = "text")
      => LET text == files["pyproject.toml"].text
         IN  /\ Contains(text, RequiresPythonLine(python_version))
             /\ Contains(text, TargetVersionLine(Undotted(python_version)))
             /\ Contains(text, ClassifierLines(python_version))

\* python_version 3.13 gave the ruff target py313
C9_Witness ==
    /\ tokens_result.outcome = "completed"
    /\ python_version = <<"3",".","1","3">>
    /\ files["pyproject.toml"].kind = "text"
    /\ Contains(files["pyproject.toml"].text, TargetVersionLine(<<"3","1","3">>))
    /\ Contains(files["pyproject.toml"].text, RequiresPythonLine(<<"3",".","1","3">>))

----------------------------------------------------------------------------
(* main(): properties *)

\* C10: main() never ends with an unhandled error: whichever command fails
\* and whichever file cannot be read or written, main() goes on to its final
\* success message.
C10_MainNeverRaises == main_pc /= "raised"

\* the steps of main() in the order of the source
StepRank(pc) ==
    CASE pc = "tokens" -> 1
      [] pc = "cruft" -> 2
      [] pc = "cleanup" -> 3
      [] pc = "git_init" -> 4
      [] pc = "uv" -> 5
      [] pc = "install" -> 6
      [] pc = "commit" -> 7
      [] pc = "done" -> 8

\* the positions of the log at which the command was run
RunsOf(log, cmd) ==
    { i \in 1..Len(log) : log[i].kind = "run" /\ log[i].text = cmd }

\* the text of the j-th entry of the log
EntryText(log, j) == log[j].text

\* the commands of the initial commit
CommitCommands ==
    { "git add .", "git commit -m \"Initial commit from cookiecutter template\"" }

\* C11: the steps of main() run one after another in the order token
\* substitution, cruft tracking, cleanup, git init, uv, dependency sync,
\* pre-commit install, initial commit: a step begins only when the one before
\* it has ended, and when a command of the initial commit runs, token
\* substitution has completed and setup_cruft_tracking has returned.
C11_StepsInOrder ==
    [][ /\ main_pc' /= main_pc =>
             \/ main_pc' = "raised"
             \/ StepRank(main_pc') = StepRank(main_pc) + 1
        /\ \A i \in RunsOf(main_log', "pre-commit install") :
             /\ i > 1
             /\ \A j \in 1..(i - 1) :
                  EntryText(main_log', j) \notin CommitCommands
             /\ \E j \in 1..(i - 1) :
                  main_log'[j].kind = "run"
                  /\ main_log'[j].text \in {"uv tool install pre-commit",
                                            "pip install pre-commit"}
        /\ (\E cmd \in CommitCommands : RunsOf(main_log', cmd) /= {}) =>
             /\ main_pc' = "done"
             /\ main_pc = "commit"
             /\ tokens_result'.outcome = "completed"
             /\ cruft_result'.outcome \in {"skipped", "already", "failed",
                                           "written"} ]_vars

\* a run in which the hook wrote the files and then made the initial commit
C11_Witness ==
    /\ main_pc = "done"
    /\ RunsOf(main_log, "git add .") /= {}
    /\ tokens_result.outcome = "completed"
    /\ cruft_result.outcome = "written"
    /\ \E n \in ProjectNames : files[n].kind = "text"

\* the positions of the log at which an attempt of the initial commit ran
CommitAttempts(log) ==
    RunsOf(log, "git commit -m \"Initial commit from cookiecutter template\"")

\* C20: when the first attempt of the initial commit fails, the hook runs
\* "git add ." again and attempts the commit a second time; and
\* "[OK] Initial commit created" is printed only when an attempt of the commit
\* succeeded.
C20_CommitRetried ==
    main_pc = "done" =>
      /\ \A i \in CommitAttempts(main_log) :
           (~main_log[i].ok /\ \A k \in CommitAttempts(main_log) : i <= k) =>
             \E j \in RunsOf(main_log, "git add .") :
               \E k \in CommitAttempts(main_log) : i < j /\ j < k
      /\ Printed("[OK] Initial commit created") \in
           { main_log[i] : i \in 1..Len(main_log) } =>
             \E i \in CommitAttempts(main_log) : main_log[i].ok

Succeeded(log, cmd) == \E i \in RunsOf(log, cmd) : log[i].ok

\* C23: the install step of main() runs the uv commands ("uv sync
\* --all-extras", "uv tool install pre-commit") exactly when "uv --version"
\* succeeded or uv was installed through pipx, and the pip commands
\* otherwise; it never runs commands of both.
C23_UvOrPip ==
    [][ main_pc = "install" =>
          LET has_uv == \/ Succeeded(main_log, "uv --version")
                        \/ /\ Succeeded(main_log, "pip install --user pipx")
                           /\ Succeeded(main_log, "pipx install uv")
              by_uv == { i \in 1..Len(main_log') :
                           /\ main_log'[i].kind = "run"
                           /\ main_log'[i].text \in
                                {"uv sync --all-extras",
                                 "uv tool install pre-commit"} }
              by_pip == { i \in 1..Len(main_log') :
                            /\ main_log'[i].kind = "run"
                            /\ main_log'[i].text \in
                                 {"pip install -e .[dev]",
                                  "pip install pre-commit"} }
          IN  /\ RunsOf(main_log', "uv sync --all-extras") /= {} <=> has_uv
              /\ RunsOf(main_log', "pip install -e .[dev]") /= {} <=> ~has_uv
              /\ by_uv = {} \/ by_pip = {} ]_vars

\* the dependencies were synced with uv and the pre-commit hooks installed
C23_Witness ==
    /\ main_pc = "commit"
    /\ uv_available
    /\ Succeeded(main_log, "uv sync --all-extras")
    /\ Succeeded(main_log, "uv tool install pre-commit")
    /\ Succeeded(main_log, "pre-commit install")

----------------------------------------------------------------------------
(* validate_template: properties *)

\* the positions at which sub occurs in s
Occurrences(s, sub) ==
    { j \in 1..(Len(s) - Len(sub) + 1) : SubSeq(s, j, j + Len(sub) - 1) = sub }

\* the greatest of a set of positions, 0 for the empty set
Last(positions) ==
    IF positions = {} THEN 0
    ELSE CHOOSE j \in positions : \A k \in positions : k <= j

\* the expression at position pos of the text lies in a raw block: the last
\* raw tag that ends before it opens a block
InRawBlock(text, pos) ==
    LET before == Take(text, pos - 1)
        opened == Last(Occurrences(before, RawTag))
        closed == Last(Occurrences(before, EndRawTag))
    IN  opened > closed

\* the text of the file up to the start of its n-th line
UpToLine(text, n) ==
    LET lines == SplitLines(text)
    IN  IF n = 1 THEN <<>>
        ELSE Join(SubSeq(lines, 1, n - 1), <<"\n">>) \o <<"\n">>

\* the n-th line of the text holds an expression outside every raw block
HasUnwrapped(text, n) ==
    \E pos \in Occurrences(SplitLines(text)[n], GithubExpression) :
      ~InRawBlock(text, Len(UpToLine(text, n)) + pos)

\* C14: check_workflows_raw_wrapping reports exactly the lines that hold a
\* GitHub expression outside a raw block: an expression after a raw tag that
\* no endraw tag has closed is accepted, also when the block opens and closes
\* on the line of the expression; every other expression is reported.
C14_ReportsExactlyUnwrapped ==
    raw_errors.checked =>
      \A f \in 1..Len(workflows) :
        \A n \in 1..Len(SplitLines(workflows[f])) :
          (\E k \in 1..Len(raw_errors.errors) :
             raw_errors.errors[k] = RawError(f, n))
            <=> HasUnwrapped(workflows[f], n)

----------------------------------------------------------------------------
(* parse_requires_python: properties *)

\* "3.N"
Minor(n) == <<"3",".">> \o IntToStr(n)

\* C15: for a specifier with the lower bound ">=3.M", parse_requires_python
\* returns "3.M" as min; as max it returns "3." and N - 1 when the specifier
\* has the upper bound "<3.N", and min when it has no upper bound; so
\* ">=3.10,<3.13" gives ("3.10", "3.12") and ">=3.12" gives ("3.12", "3.12").
C15_MinAndMaxOfSpec ==
    min_max.parsed =>
      /\ \A m \in Minors, space \in BOOLEAN :
           requires_spec = LowerBound(m, space) =>
             min_max.lo = Minor(m) /\ min_max.hi = Minor(m)
      /\ \A m \in Minors, n \in Minors, space \in BOOLEAN,
             upper_first \in BOOLEAN :
           requires_spec = Bounded(m, n, space, upper_first) =>
             min_max.lo = Minor(m) /\ min_max.hi = Minor(n - 1)
      /\ requires_spec = <<">","=","3",".","1","0",",","<","3",".","1","3">> =>
           min_max.lo = <<"3",".","1","0">> /\ min_max.hi = <<"3",".","1","2">>
      /\ requires_spec = <<">","=","3",".","1","2">> =>
           min_max.lo = <<"3",".","1","2">> /\ min_max.hi = <<"3",".","1","2">>

\* the upper bound written before the lower one, with blanks
C15_Witness ==
    /\ min_max.parsed
    /\ requires_spec = <<"<"," ","3",".","1","4",","," ",">","="," ","3",".","9">>
    /\ min_max.lo = <<"3",".","9">>
    /\ min_max.hi = <<"3",".","1","3">>

----------------------------------------------------------------------------
(* bump_python.py: properties *)

\* the clauses of a version specifier, without the blanks around them
Clauses(spec) ==
    { Strip(SplitOn(spec, ",")[i]) : i \in 1..Len(SplitOn(spec, ",")) }

\* the clauses that bound the version from above, from below
UpperBounds(spec) == { c \in Clauses(spec) : c /= <<>> /\ c[1] = "<" }
LowerBounds(spec) == { c \in Clauses(spec) : c /= <<>> /\ c[1] = ">" }

\* C16: after bump_python --to X.Y has completed, the requires-python value
\* of pyproject.toml has ">=X.Y" as its lower bound, whatever the value was
\* before, and the upper bounds the value had before are still in it.
C16_LowerBoundIsTo ==
    bump_result.exit = "updated" =>
      /\ pyproject.kind = "doc"
      /\ pyproject.project
      /\ pyproject.requires.t = "str"
      /\ LowerBounds(pyproject.requires.v) = { <<">","=">> \o bump_result.to }
      /\ UpperBounds(bump_result.old) \subseteq UpperBounds(pyproject.requires.v)

\* the argument after the first --to, <<>> when there is none
ValueOfTo ==
    LET at == { i \in 1..Len(argv) : argv[i] = ToFlag }
        first == CHOOSE i \in at : \A k \in at : i <= k
    IN  IF at = {} \/ first = Len(argv) THEN <<>> ELSE argv[first + 1]

\* digits, a dot, digits and nothing else
IsMajorMinor(to) ==
    \E dot \in 2..(Len(to) - 1) :
      /\ to[dot] = "."
      /\ \A q \in (1..Len(to)) \ {dot} : to[q] \in Digits

\* C17: when --to is not among the arguments, is the last argument, or is
\* followed by a value that is not digits, a dot and digits, bump_python
\* exits with an error message and pyproject.toml is neither read nor
\* written: it holds what it held.
C17_BadArgumentsRejected ==
    [][ ~IsMajorMinor(ValueOfTo) =>
          /\ bump_result'.exit \in {"usage", "no_value", "invalid"}
          /\ bump_result'.message /= <<>>
          /\ ~bump_result'.read
          /\ ~bump_result'.wrote
          /\ pyproject' = pyproject ]_vars

\* a version with a patch number is rejected
C17_Witness ==
    /\ argv = <<<<"b","u","m","p","_","p","y","t","h","o","n",".","p","y">>, ToFlag, <<"3",".","1","2",".","1">>>>
    /\ bump_result.exit = "invalid"
    /\ pyproject = Pyproject(TRUE, Str(<<">","=","3",".","1","0",",","<","3",".","1","3">>))

----------------------------------------------------------------------------
(* The optional files: properties *)

\* the file is there and holds more than whitespace
HasContent(path) == tree[path].kind = "text" /\ Strip(tree[path].text) /= <<>>

\* the file is not there or holds whitespace only
AbsentOrEmpty(path) ==
    tree[path].kind = "absent" \/ Strip(tree[path].text) = <<>>

\* C18: in a generated project CLAUDE.md exists with content iff ai_agents is
\* claude_code or all, AGENTS.md iff it is openai_codex or all,
\* .roo/rules-code/rules.md iff it is roo_code or all; a file that is not
\* selected is absent or empty, and with ai_agents = none all three are.
C18_AgentFilesOfSelection ==
    main_pc /= "idle" =>
      /\ HasContent("CLAUDE.md") <=> options.ai_agents \in {"claude_code", "all"}
      /\ HasContent("AGENTS.md") <=> options.ai_agents \in {"openai_codex", "all"}
      /\ HasContent(".roo/rules-code/rules.md")
           <=> options.ai_agents \in {"roo_code", "all"}
      /\ \A a \in Agents :
           options.ai_agents \notin {a, "all"} => AbsentOrEmpty(AgentFile(a))
      /\ options.ai_agents = "none" =>
           \A p \in {"CLAUDE.md", "AGENTS.md", ".roo/rules-code/rules.md"} :
             AbsentOrEmpty(p)

\* all three files after the cleanup of a project without the paper files
C18_Witness ==
    /\ main_pc = "git_init"
    /\ options = [ai_agents |-> "all", project_type |-> "standard"]
    /\ placeholders = <<>>
    /\ \A a \in Agents : HasContent(AgentFile(a))

\* C19: a project of type standard has no file under paper/, no render-paper
\* workflow and neither "paper = [" nor "marimo" in pyproject.toml; a project
\* of type paper has paper/paper.qmd, paper/references.bib,
\* .github/workflows/render-paper.yml and the paper group in pyproject.toml.
C19_PaperFilesOfType ==
    main_pc /= "idle" =>
      /\ options.project_type = "standard" =>
           /\ \A p \in PaperFiles : tree[p].kind = "absent"
           /\ ~Contains(tree["pyproject.toml"].text, <<"p","a","p","e","r"," ","="," ","[">>)
           /\ ~Contains(tree["pyproject.toml"].text, <<"m","a","r","i","m","o">>)
      /\ options.project_type = "paper" =>
           /\ tree["paper/paper.qmd"].kind = "text"
           /\ tree["paper/references.bib"].kind = "text"
           /\ tree[".github/workflows/render-paper.yml"].kind = "text"
           /\ Contains(tree["pyproject.toml"].text, <<"p","a","p","e","r"," ","="," ","[">>)
           /\ Contains(tree["pyproject.toml"].text, <<"m","a","r","i","m","o">>)

\* a standard project after its placeholder directory has been removed
C19_Witness ==
    /\ main_pc = "git_init"
    /\ options.project_type = "standard"
    /\ placeholders = <<>>
    /\ tree["pyproject.toml"].kind = "text"
    /\ tree["paper/paper.qmd"].kind = "absent"

----------------------------------------------------------------------------
(* get_unique_minors: properties *)

\* the numbers before and after the first dot of a version
MajorMinor(version) ==
    <<ToInt(SplitOn(version, ".")[1]), ToInt(SplitOn(version, ".")[2])>>

\* C24: get_unique_minors returns the minors of the "X.Y.Z" versions it is
\* given: each (major, minor) of the input once, as "X.Y", and no other, in
\* ascending numeric order of (major, minor): "3.9" before "3.10".
C24_DistinctMinorsInOrder ==
    unique_minors.called =>
      LET out == unique_minors.minors
      IN  /\ { MajorMinor(out[i]) : i \in 1..Len(out) }
               = { MajorMinor(versions_given[i]) :
                     i \in 1..Len(versions_given) }
          /\ \A i \in 1..Len(out) :
               out[i] = IntToStr(MajorMinor(out[i])[1]) \o <<".">>
                        \o IntToStr(MajorMinor(out[i])[2])
          /\ \A i \in 1..(Len(out) - 1) :
               \/ MajorMinor(out[i])[1] < MajorMinor(out[i + 1])[1]
               \/ /\ MajorMinor(out[i])[1] = MajorMinor(out[i + 1])[1]
                  /\ MajorMinor(out[i])[2] < MajorMinor(out[i + 1])[2]
          /\ versions_given = << <<"3",".","1","0",".","4">>, <<"3",".","9",".","1","8">> >> =>
               out = << <<"3",".","9">>, <<"3",".","1","0">> >>

\* two patches of 3.10 around one of 3.9
C24_Witness ==
    /\ unique_minors.called
    /\ versions_given = << <<"3",".","1","0",".","4">>, <<"3",".","9",".","1","8">>, <<"3",".","1","0",".","1","2">> >>
    /\ unique_minors.minors = << <<"3",".","9">>, <<"3",".","1","0">> >>

----------------------------------------------------------------------------
(* Specifications: one per procedure; the variables of the others rest *)

CruftAtRest ==
    /\ cruft_file = FileMissing
    /\ environ = [n \in EnvNames |-> PyNone]
    /\ git_repos = [template |-> FALSE, probes |-> {}]
    /\ cruft_result = NoCruftResult
DiscoveryAtRest == dpv = NoDiscovery
TokensAtRest ==
    /\ python_version = <<>>
    /\ today = <<>>
    /\ files = <<>>
    /\ tokens_result = NoTokensResult
MainAtRest ==
    /\ placeholders = <<>>
    /\ main_pc = "idle"
    /\ uv_available = FALSE
    /\ main_log = <<>>

ValidateAtRest ==
    /\ workflows = <<>>
    /\ raw_errors = NotChecked
ParseAtRest ==
    /\ requires_spec = <<>>
    /\ min_max = NotParsed
BumpAtRest ==
    /\ argv = <<>>
    /\ pyproject = NoPyproject
    /\ bump_result = NotBumped
GenerateAtRest ==
    /\ options = NoOptions
    /\ tree = NotGenerated
MinorsAtRest ==
    /\ versions_given = <<>>
    /\ unique_minors = NotCalled
ToolsAtRest ==
    /\ ValidateAtRest /\ ParseAtRest /\ BumpAtRest /\ GenerateAtRest
    /\ MinorsAtRest

InitCruft ==
    /\ cruft_file \in CruftFiles
    /\ environ \in Environs
    /\ git_repos \in GitRepos
    /\ cruft_result = NoCruftResult
    /\ DiscoveryAtRest /\ TokensAtRest /\ MainAtRest /\ ToolsAtRest

NextCruft ==
    \/ SetupCruftTracking /\ UNCHANGED <<dpv_vars, tool_vars, tokens_vars, main_vars>>
    \/ SetEnviron /\ UNCHANGED <<dpv_vars, tool_vars, tokens_vars, main_vars>>
    \/ SetGitRepos /\ UNCHANGED <<dpv_vars, tool_vars, tokens_vars, main_vars>>

\* calls of setup_cruft_tracking in one project directory, the environment
\* and the git checkouts changing between them
SpecCruft == InitCruft /\ [][NextCruft]_vars

InitDiscover ==
    CruftAtRest /\ DiscoveryAtRest /\ TokensAtRest /\ MainAtRest /\ ToolsAtRest

NextDiscover ==
    DiscoverPythonVersions
      /\ UNCHANGED <<cruft_vars, tokens_vars, main_vars, tool_vars>>

\* a call of discover_python_versions
SpecDiscover == InitDiscover /\ [][NextDiscover]_vars

InitTokens ==
    /\ python_version \in PythonVersions
    /\ today \in Days
    /\ files \in ProjectDirs
    /\ tokens_result = NoTokensResult
    /\ CruftAtRest /\ DiscoveryAtRest /\ MainAtRest /\ ToolsAtRest

NextTokens ==
    SetupPythonVersions /\ UNCHANGED <<cruft_vars, dpv_vars, tool_vars, main_vars>>

\* a call of setup_python_versions in a freshly rendered project directory
SpecTokens == InitTokens /\ [][NextTokens]_vars

\* .cruft.json as main() finds it: absent, as cookiecutter rendered it, or
\* holding something that is not an object
MainCruftFiles ==
    { FileMissing, JsonFile(List(<<>>)),
      JsonFile(Obj([context |-> Context, template |-> Str(TemplateLocal)])) }

\* the project directories with at most one file
MainDirs ==
    { d \in ProjectDirs :
        Cardinality({ n \in ProjectNames : d[n] /= Absent }) <= 1 }

InitMain ==
    /\ python_version \in PythonVersions
    /\ today \in Days
    /\ files \in MainDirs
    /\ tokens_result = NoTokensResult
    /\ cruft_file \in MainCruftFiles
    /\ environ = [n \in EnvNames |-> PyNone]
    /\ git_repos = [template |-> FALSE, probes |-> {}]
    /\ cruft_result = NoCruftResult
    /\ placeholders \in PlaceholderLayouts
    /\ main_pc = "tokens"
    /\ uv_available = FALSE
    /\ main_log = <<>>
    /\ DiscoveryAtRest /\ ToolsAtRest

NextMain ==
    \/ MainSetupPythonVersions
    \/ MainSetupCruftTracking
    \/ MainCleanup
    \/ MainGitInit
    \/ MainUv
    \/ MainInstall
    \/ MainCommit

\* one run of main() in a freshly rendered project directory
SpecMain == InitMain /\ [][NextMain]_vars

InitValidate ==
    /\ workflows \in WorkflowSets
    /\ raw_errors = NotChecked
    /\ CruftAtRest /\ DiscoveryAtRest /\ TokensAtRest /\ MainAtRest
    /\ ParseAtRest /\ BumpAtRest /\ GenerateAtRest
    /\ MinorsAtRest

NextValidate ==
    CheckWorkflowsRawWrapping
      /\ UNCHANGED <<cruft_vars, dpv_vars, tokens_vars, main_vars, parse_vars,
                   bump_vars, gen_vars, minors_vars>>

\* a call of check_workflows_raw_wrapping on the template's workflow files
SpecValidate == InitValidate /\ [][NextValidate]_vars

InitParse ==
    /\ requires_spec \in RequiresSpecs
    /\ min_max = NotParsed
    /\ CruftAtRest /\ DiscoveryAtRest /\ TokensAtRest /\ MainAtRest
    /\ ValidateAtRest /\ BumpAtRest /\ GenerateAtRest
    /\ MinorsAtRest

NextParse ==
    ParseRequiresPython
      /\ UNCHANGED <<cruft_vars, dpv_vars, tokens_vars, main_vars,
                     validate_vars, bump_vars, gen_vars, minors_vars>>

\* a call of parse_requires_python
SpecParse == InitParse /\ [][NextParse]_vars

InitBump ==
    /\ argv \in Argvs
    /\ pyproject \in Pyprojects
    /\ bump_result = NotBumped
    /\ CruftAtRest /\ DiscoveryAtRest /\ TokensAtRest /\ MainAtRest
    /\ ValidateAtRest /\ ParseAtRest /\ GenerateAtRest
    /\ MinorsAtRest

NextBump ==
    BumpPython
      /\ UNCHANGED <<cruft_vars, dpv_vars, tokens_vars, main_vars,
                     validate_vars, parse_vars, gen_vars, minors_vars>>

\* a run of bump_python.py
SpecBump == InitBump /\ [][NextBump]_vars

InitGenerate ==
    /\ options \in Options
    /\ tree = NotGenerated
    /\ CruftAtRest /\ DiscoveryAtRest /\ TokensAtRest /\ MainAtRest
    /\ ValidateAtRest /\ ParseAtRest /\ BumpAtRest /\ MinorsAtRest

NextGenerate ==
    \/ RenderTemplate
    \/ MainCleanup

\* the template is rendered and main() removes the placeholder paths
SpecGenerate == InitGenerate /\ [][NextGenerate]_vars

InitMinors ==
    /\ versions_given \in ListsUpTo(StableVersions, MaxVersions)
    /\ unique_minors = NotCalled
    /\ CruftAtRest /\ DiscoveryAtRest /\ TokensAtRest /\ MainAtRest
    /\ ValidateAtRest /\ ParseAtRest /\ BumpAtRest /\ GenerateAtRest

NextMinors ==
    GetUniqueMinors
      /\ UNCHANGED <<cruft_vars, dpv_vars, tokens_vars, main_vars,
                     validate_vars, parse_vars, bump_vars, gen_vars>>

\* a call of get_unique_minors
SpecMinors == InitMinors /\ [][NextMinors]_vars

====
